---- MODULE Spec2Model ----
(***************************************************************************)
(* A model of run.py of plugincompat: main() fans out one process_package  *)
(* task per plugin of the index into a trio nursery, bounded by a          *)
(* trio.Semaphore; every task runs run_package (cache check, index query,  *)
(* download, extract, tox under a 5 minute deadline), prints its result    *)
(* and hands it to ResultsPoster, which posts results in batches.          *)
(*                                                                         *)
(* trio is a cooperative, single-threaded scheduler: the code between two  *)
(* awaits of a task runs without interleaving.  Every action below is one  *)
(* such stretch of code, from the await that resumes it to the await that  *)
(* parks it again.                                                         *)
(***************************************************************************)
EXTENDS Integers, Sequences, FiniteSets, TLC

\* Bounds of the model.
MaxPlugins == 2      \* length of the plugin index after the limit is applied
MaxWorkers == 2      \* largest --workers value explored
MaxBatch == 2        \* largest --post-batches value explored
MaxDists == 2        \* longest release_urls answer explored
MaxCalls == 4        \* calls the sequential driver makes to the poster
MaxIndex == 4        \* longest index.json, and largest --limit, explored for the limit
MaxName == 3         \* most parts (stem and dotted suffixes) of a file name given to extract
MaxRows == 2         \* most rows of the results table of web.py
MaxThrottles == 2    \* most throttling faults the server answers to one request

Plugins == 1..MaxPlugins
\* Who awaits a POST: a process_package task (its plugin) or main's final flush.
MAIN == 0
Callers == 0..MaxPlugins

VARIABLES
    workers,          \* args.workers, the initial value of the semaphore
    batch_size,       \* ResultsPoster.batch_size (args.post_batches)
    secret,           \* ResultsPoster.secret is set (POST_KEY was in the environment)
    site,             \* PLUGINCOMPAT_SITE is set in the environment
    index_len,        \* the number of plugins index.json lists
    limit,            \* args.limit: --limit, when given
    n_total,          \* len(plugins), once the limit is applied
    tmp,              \* the scratch directory of mkdtemp: "none", "exists" or "removed"
    release_urls,     \* what client.release_urls answers, where the model follows one download
    main_pc,          \* where main() is
    next_plugin,      \* the plugin the for loop of main starts next
    sem_value,        \* trio.Semaphore._value
    lot,              \* trio.Semaphore._lot: the tasks parked in acquire, oldest first
    cancelled,        \* the nursery's cancel scope has been cancelled
    pc,               \* where each process_package task is
    basename,         \* run_package's local basename, while it lives
    proc,             \* the tox subprocess (and the worker thread that waits for it)
    effects,          \* what each job has done so far: counters of its side effects
    current,          \* ProgressCounter._current
    printed,          \* the lines print_package_result has printed, in order
    package_results,  \* ResultsPoster._package_results
    total_posted,     \* ResultsPoster._total_posted
    in_flight,        \* the session.post calls being awaited
    flushes,          \* every call of post_all so far: its batch, who made it
    recorded,         \* every result handed to maybe_post_batch so far, in order
    extraction,       \* what the last call of extract returned or raised, where the model follows one
    db,               \* web.py: the rows of the results table, in the order of their ids
    http,             \* web.py: what the last call of the storage or of a view answered
    rpc,              \* RateLimitedProxy: the request _rate_limit_request is making
    tox               \* run_tox: the call the model follows, its directory and what it did

vars == << workers, batch_size, secret, site, index_len, limit, n_total, tmp,
           release_urls, main_pc, next_plugin, sem_value, lot, cancelled, pc, basename, proc, effects, current,
           printed, package_results, total_posted, in_flight, flushes, recorded,
           extraction, db, http, rpc, tox >>

\* What run.py's tasks never touch: the state of the extract call, of web.py
\* and of the proxy that the model follows on their own
otherVars  == << extraction, db, http, rpc, tox >>
configVars == << workers, batch_size, secret, site, index_len, limit, n_total,
                release_urls, otherVars >>
posterVars == << package_results, total_posted, in_flight, flushes, recorded >>
jobVars    == << pc, basename, proc, effects >>
semVars    == << sem_value, lot >>
printVars  == << current, printed >>

----------------------------------------------------------------------------
(* PackageResult and the three places of run_package that build one.  The  *)
(* name stands for (name, version, description): run_package copies the    *)
(* three from its arguments.  An output is the sequence of its pieces.     *)

PackageResult(name, status_code, status, output) ==
    [name |-> name, status_code |-> status_code, status |-> status, output |-> output]

SkippedResult(name) == PackageResult(name, 0, "SKIPPED", <<"Skipped">>)

\* Variants of NoDistResult: code 0, and the status of a failed run
NoDistResult_zero(name) ==
    PackageResult(name, 0, "NO DIST", <<"No source or compatible distribution found">>)
NoDistResult_as_failed(name) ==
    PackageResult(name, 1, "FAILED", <<"No source or compatible distribution found">>)

NoDistResult(name) ==
    PackageResult(name, 1, "NO DIST", <<"No source or compatible distribution found">>)

\* A variant of DoneStatus: FAILED for code 1 only
DoneStatus_one(status_code) == IF status_code = 1 THEN "FAILED" ELSE "PASSED"

\* lines 292-294: the footer, then PASSED for code 0 and FAILED otherwise
DoneStatus(status_code) == IF status_code = 0 THEN "PASSED" ELSE "FAILED"

DoneResult(name, status_code, output) ==
    PackageResult(name, status_code, DoneStatus(status_code),
                  output \o <<"\n\nTime: ">>)

----------------------------------------------------------------------------
(* ProgressCounter and print_package_result.                               *)

\* A variant of increment_percentage: the percentage is taken before the increment
increment_percentage_before == (current * 100) \div n_total

increment_percentage == ((current + 1) * 100) \div n_total

\* A variant of print_package_result: the lines are kept in the order of the index
print_package_result_in_index_order(r) ==
    /\ current' = current + 1
    /\ LET line == [result |-> r, percent |-> increment_percentage]
           before == SelectSeq(printed, LAMBDA l : l.result.name < r.name)
           after == SelectSeq(printed, LAMBDA l : l.result.name >= r.name)
       IN printed' = before \o << line >> \o after

print_package_result(r) ==
    /\ current' = current + 1
    /\ printed' = Append(printed, [result |-> r, percent |-> increment_percentage])

----------------------------------------------------------------------------
(* ResultsPoster.                                                          *)

\* Python compares the PackageResult tuples field by field: name, (version,)
\* status_code, status.  The status strings in Python's string order:
StatusRank(status) ==
    CASE status = "FAILED"  -> 1
      [] status = "NO DIST" -> 2
      [] status = "PASSED"  -> 3
      [] status = "SKIPPED" -> 4

TupleLess(a, b) ==
    \/ a.name < b.name
    \/ a.name = b.name /\ a.status_code < b.status_code
    \/ a.name = b.name /\ a.status_code = b.status_code
                       /\ StatusRank(a.status) < StatusRank(b.status)

RECURSIVE Insert(_, _)
Insert(r, s) ==
    IF s = <<>> THEN <<r>>
    ELSE IF TupleLess(r, Head(s)) THEN <<r>> \o s
    ELSE <<Head(s)>> \o Insert(r, Tail(s))

RECURSIVE sorted(_)
sorted(s) == IF s = <<>> THEN <<>> ELSE Insert(Head(s), sorted(Tail(s)))

\* lines 220-228: one dict of the POST body
ResultDict(r) ==
    [name |-> r.name, status |-> IF r.status_code = 0 THEN "ok" ELSE "fail",
     output |-> r.output]

\* line 234: os.environ["PLUGINCOMPAT_SITE"] raises KeyError when the variable is unset
PostAllRaises == secret /\ ~site

\* Variants of post_all: the POST is sent whether or not there is a secret;
\* the pending list is not cleared
post_all_without_secret_test(pending, by, auto) ==
    LET batch == sorted(pending)
        results == [i \in 1..Len(batch) |-> ResultDict(batch[i])]
    IN /\ package_results' = <<>>
       /\ flushes' = Append(flushes, [batch |-> batch, auto |-> auto, by |-> by,
                                      sent |-> site])
       /\ in_flight' = IF site
                       THEN in_flight \cup {[by |-> by, results |-> results]}
                       ELSE in_flight
post_all_keeps_pending(pending, by, auto) ==
    LET batch == sorted(pending)
        results == [i \in 1..Len(batch) |-> ResultDict(batch[i])]
    IN /\ package_results' = pending
       /\ flushes' = Append(flushes, [batch |-> batch, auto |-> auto, by |-> by,
                                      sent |-> secret /\ site])
       /\ in_flight' = IF secret /\ site
                       THEN in_flight \cup {[by |-> by, results |-> results]}
                       ELSE in_flight

\* post_all up to its await: the pending list is sorted, turned into dicts and
\* cleared; with a secret the POST is sent and awaited (by `by`), without one
\* the batch is dropped with a message.  `pending` is _package_results as
\* the caller left it; `auto` tells maybe_post_batch's call from main's.
post_all(pending, by, auto) ==
    LET batch == sorted(pending)
        results == [i \in 1..Len(batch) |-> ResultDict(batch[i])]
    IN /\ package_results' = <<>>
       /\ flushes' = Append(flushes, [batch |-> batch, auto |-> auto, by |-> by,
                                      sent |-> secret /\ site])
       /\ in_flight' = IF secret /\ site
                       THEN in_flight \cup {[by |-> by, results |-> results]}
                       ELSE in_flight

\* A variant of skip: every result is recorded
skip_never(r) == FALSE

\* line 212: a SKIPPED result is not recorded
skip(r) == r.status = "SKIPPED"

\* A variant of batch_full: > for >=
batch_full_strict(pending) == Len(pending) > batch_size

\* line 215: the pending list has reached the batch size
batch_full(pending) == Len(pending) >= batch_size

\* A variant of maybe_post_batch: the size is tested before the result is
\* appended, so a full list waits for the next call
maybe_post_batch_tests_first(r, by) ==
    /\ recorded' = Append(recorded, r)
    /\ IF skip(r)
       THEN UNCHANGED << package_results, in_flight, flushes >>
       ELSE IF batch_full(package_results)
            THEN LET batch == sorted(package_results)
                     results == [i \in 1..Len(batch) |-> ResultDict(batch[i])]
                 IN /\ package_results' = << r >>
                    /\ flushes' = Append(flushes, [batch |-> batch, auto |-> TRUE, by |-> by,
                                                   sent |-> secret /\ site])
                    /\ in_flight' = IF secret /\ site
                                    THEN in_flight \cup {[by |-> by, results |-> results]}
                                    ELSE in_flight
            ELSE /\ package_results' = Append(package_results, r)
                 /\ UNCHANGED << in_flight, flushes >>

\* maybe_post_batch up to its return or its await
maybe_post_batch(r, by) ==
    /\ recorded' = Append(recorded, r)
    /\ IF skip(r)
       THEN UNCHANGED << package_results, in_flight, flushes >>
       ELSE IF batch_full(Append(package_results, r))
            THEN post_all(Append(package_results, r), by, TRUE)
            ELSE /\ package_results' = Append(package_results, r)
                 /\ UNCHANGED << in_flight, flushes >>

\* After one of the two: is `by` now awaiting its POST, did post_all raise?
Awaiting(by) == \E f \in in_flight' : f.by = by
Flushed == Len(flushes') > Len(flushes)

\* lines 237-240: the response of the POST `f`: raise_for_status, then count
PostOk(f) ==
    /\ in_flight' = in_flight \ {f}
    /\ total_posted' = total_posted + Len(f.results)
    /\ UNCHANGED << package_results, flushes, recorded >>

\* A variant of PostFails: the batch of a failed POST is put back
PostFails_restores(f) ==
    /\ in_flight' = in_flight \ {f}
    /\ LET last == CHOOSE i \in DOMAIN flushes :
                      /\ flushes[i].by = f.by
                      /\ \A k \in DOMAIN flushes : flushes[k].by = f.by => k <= i
       IN package_results' = flushes[last].batch \o package_results
    /\ UNCHANGED << total_posted, flushes, recorded >>

\* lines 237-238: session.post raises, or raise_for_status does: nothing is
\* counted, and the batch, cleared at line 231, is not put back
PostFails(f) ==
    /\ in_flight' = in_flight \ {f}
    /\ UNCHANGED << package_results, total_posted, flushes, recorded >>

----------------------------------------------------------------------------
(* What the outside world can answer.                                      *)

\* A file name is the sequence of its parts: the stem, then every dotted
\* suffix ("p.tar.gz" is << "p", ".tar", ".gz" >>).  Python's None is a name
\* no file has.
None == << "None" >>

\* A response of session.get or session.post, or the call raising instead
Response(code) == [raises |-> FALSE, status_code |-> code]
RequestRaises == [raises |-> TRUE, status_code |-> 0]
StatusCodes == {200, 201, 404, 500}
Responses == {Response(c) : c \in StatusCodes} \cup {RequestRaises}

\* One entry of client.release_urls: packagetype, filename, and what
\* is_compatible(filename) does for it: "yes", "no" or "raise" (DistlibException)
Dist(packagetype, filename, compatible) ==
    [packagetype |-> packagetype, filename |-> filename, compatible |-> compatible]
Dists ==
    {Dist("sdist", f, "no") : f \in {<< "p", ".tar", ".gz" >>, << "p", ".dat" >>}}
    \cup {Dist("bdist_wheel", f, c) : f \in {<< "p-1", ".whl" >>, << "p-2", ".whl" >>},
                                       c \in {"yes", "no", "raise"}}
    \cup {Dist("bdist_egg", << "p", ".egg" >>, "no")}
ReleaseLists == UNION {[1..n -> Dists] : n \in 0..MaxDists}

\* What the scratch directory holds once the file is written: an archive that
\* extracts to its directory ("ok"), one whose directory is missing, so that
\* tox.ini cannot be written ("tox_ini_error"), or a file that cannot be read
\* ("unreadable": opening it raises), or one whose extraction fails half way
\* ("truncated": extractall raises after it wrote some members)
Archives == {"ok", "tox_ini_error", "unreadable", "truncated"}

\* How the await of run_tox's worker thread ends: tox exits with a code, the
\* call raises something else (no tox executable, undecodable output), or the
\* deadline of move_on_after passes first and trio raises Cancelled
ExitCodes == {0, 2}
TestEnd(kind, code) == [kind |-> kind, code |-> code]
TestEnds ==
    {TestEnd("exit", c) : c \in ExitCodes}
    \cup {TestEnd("Exception", 0), TestEnd("Cancelled", 0)}

----------------------------------------------------------------------------
(* download_package, extract, run_tox and the TEST block of run_package    *)
(* as functions of what the outside world answers.                         *)

\* A variant of FirstCompatible: the exception of is_compatible ends the scan
RECURSIVE FirstCompatible_stops_at_error(_)
FirstCompatible_stops_at_error(wheels) ==
    IF wheels = <<>> THEN None
    ELSE IF Head(wheels).compatible = "yes" THEN Head(wheels).filename
    ELSE IF Head(wheels).compatible = "raise" THEN None
    ELSE FirstCompatible_stops_at_error(Tail(wheels))

\* lines 61-72: the first wheel is_compatible accepts; an exception of
\* is_compatible counts as a refusal
RECURSIVE FirstCompatible(_)
FirstCompatible(wheels) ==
    IF wheels = <<>> THEN None
    ELSE IF Head(wheels).compatible = "yes" THEN Head(wheels).filename
    ELSE FirstCompatible(Tail(wheels))

IsSdist(d) == d.packagetype = "sdist"
IsWheel(d) == d.packagetype = "bdist_wheel"

\* lines 51-72: fname, or None
download_package(urls) ==
    LET sdists == SelectSeq(urls, IsSdist)
        wheels == SelectSeq(urls, IsWheel)
    IN IF sdists # <<>> THEN Head(sdists).filename ELSE FirstCompatible(wheels)

\* What download_package picks over all the answers of the index
Selections == {download_package(urls) : urls \in ReleaseLists}

\* str.endswith: the last parts of the name are the parts of the suffix
endswith(fname, ext) ==
    /\ Len(fname) >= Len(ext)
    /\ SubSeq(fname, Len(fname) - Len(ext) + 1, Len(fname)) = ext

\* lines 80-84: the dict of extractors, in the order the loop visits it
extractors == << << ".zip" >>, << ".tar", ".gz" >>, << ".tgz" >> >>
Extractors == {extractors[i] : i \in DOMAIN extractors}

\* What a call of extract leaves behind: it returns target or raises message,
\* and the members of the archive it wrote: "nothing", "some" or "all"
NoMessage == [text |-> "", file |-> None]
ExtractReturns(target) ==
    [raises |-> FALSE, message |-> NoMessage, target |-> target, extracted |-> "all"]
ExtractRaises(text, file, extracted) ==
    [raises |-> TRUE, message |-> [text |-> text, file |-> file], target |-> None,
     extracted |-> extracted]

\* lines 90-93: the extractor of the suffix opens the file and extracts all of
\* it, then the name without the suffix is returned: basename[: -len(ext)]
extract_with(ext, fname, archive) ==
    CASE archive = "unreadable" -> ExtractRaises("bad archive", fname, "nothing")
      [] archive = "truncated" -> ExtractRaises("bad archive", fname, "some")
      [] OTHER -> ExtractReturns(SubSeq(fname, 1, Len(fname) - Len(ext)))

\* A variant of extract: the name is cut at its last dot, like os.path.splitext
extract_splitext(fname, archive) ==
    LET known == {i \in DOMAIN extractors : endswith(fname, extractors[i])}
    IN IF known = {}
       THEN ExtractRaises("could not extract %s", fname, "nothing")
       ELSE extract_with(<< fname[Len(fname)] >>, fname, archive)

\* A variant of extract: a name no extractor knows is returned as it is
extract_unknown_passes(fname, archive) ==
    LET known == {i \in DOMAIN extractors : endswith(fname, extractors[i])}
    IN IF known = {}
       THEN ExtractReturns(fname)
       ELSE extract_with(extractors[CHOOSE i \in known : \A k \in known : i <= k],
                         fname, archive)

\* lines 79-96: the first extractor whose suffix ends the name; no one: raise
extract(fname, archive) ==
    LET known == {i \in DOMAIN extractors : endswith(fname, extractors[i])}
    IN IF known = {}
       THEN ExtractRaises("could not extract %s", fname, "nothing")
       ELSE extract_with(extractors[CHOOSE i \in known : \A k \in known : i <= k],
                         fname, archive)

extract_raises(fname, archive) == extract(fname, archive).raises

\* What a call returns: a (status_code, output) pair, or the exception it raises
Returns(status_code, output) ==
    [raises |-> "no", status_code |-> status_code, output |-> output]
Raises(exc) == [raises |-> exc, status_code |-> 0, output |-> <<>>]

\* lines 121-138: exit code 0 returns (0, output); CalledProcessError is
\* caught and returns (returncode, output); anything else leaves run_tox
run_tox(end) ==
    IF end.kind = "exit" THEN Returns(end.code, <<"tox output">>) ELSE Raises(end.kind)

\* Variants of IsException: `except BaseException`, and no except clause
IsException_base(exc) == TRUE
IsException_none(exc) == FALSE

\* trio.Cancelled derives from BaseException, so `except Exception` lets it pass
IsException(exc) == exc # "Cancelled"

\* lines 281-290: try/except Exception inside move_on_after, then cancelled_caught
test_block(end) ==
    LET r == run_tox(end)
        in_try == IF r.raises = "no" THEN r
                  ELSE IF IsException(r.raises)
                       THEN Returns(1, <<"traceback:\n", "trace">>)
                       ELSE r
        cancelled_caught == in_try.raises = "Cancelled"
    IN IF cancelled_caught THEN Returns(1, <<"tox run timed out">>) ELSE in_try

\* Variants of cache_hit: the check removed, and any response taken for a hit
cache_hit_never(resp) == FALSE
cache_hit_any(resp) == ~resp.raises

\* lines 260-265: the cache check answers "already tested"
cache_hit(resp) == ~resp.raises /\ resp.status_code = 200

\* A variant of post_succeeded: raise_for_status is not called
post_succeeded_unchecked(resp) == ~resp.raises

\* line 238: raise_for_status
post_succeeded(resp) == ~resp.raises /\ resp.status_code < 400

----------------------------------------------------------------------------
(* main()'s handling of --limit (lines 349-368).                           *)

NoLimit == [given |-> FALSE, value |-> 0]
Limit(n) == [given |-> TRUE, value |-> n]

Min(a, b) == IF a <= b THEN a ELSE b
Max(a, b) == IF a >= b THEN a ELSE b

\* lines 356-360: without a secret and without --limit the limit is forced
forced_limit(args_limit) ==
    IF ~secret /\ ~args_limit.given THEN Limit(batch_size * 3) ELSE args_limit

\* len(plugins[:n]): a negative n counts from the end of the list
slice_len(len, n) == IF n >= 0 THEN Min(len, n) ELSE Max(0, len + n)

\* lines 364-368: n_total
len_plugins ==
    LET l == forced_limit(limit)
    IN IF l.given THEN slice_len(index_len, l.value) ELSE index_len

----------------------------------------------------------------------------
(* The state after main() has built the poster, the counter and the        *)
(* semaphore, before the for loop.                                         *)

NoEffects == [gets |-> 0, index |-> 0, downloads |-> 0, writes |-> 0,
              extracts |-> 0, spawns |-> 0]

InitJobs ==
    /\ pc = [j \in Plugins |-> "idle"]
    /\ basename = [j \in Plugins |-> None]
    /\ proc = [j \in Plugins |-> "none"]
    /\ effects = [j \in Plugins |-> NoEffects]
    /\ lot = << >>
    /\ cancelled = FALSE
    /\ next_plugin = 1
    /\ current = 0
    /\ printed = << >>

\* No call of extract, no row and no request yet
NoExtraction == [raises |-> FALSE, message |-> NoMessage, target |-> None,
                 extracted |-> "nothing"]
NoReply == [call |-> "none", request |-> << >>, raises |-> "no", status_code |-> 0,
            body |-> "", row |-> 0]
NoFault == [prefix |-> "", sentence |-> FALSE, reset |-> 0 - 1]
NoRequest == [pc |-> "none", method |-> "", args |-> << >>, calls |-> << >>,
              slept |-> << >>, result |-> "", fault |-> NoFault]

\* No call of run_tox
NoCall == [pc |-> "none", target |-> None, mode |-> "", tox_env |-> "",
           pytest_version |-> "", dir |-> "missing", tox_ini |-> << "absent" >>,
           was |-> << "unchecked" >>, events |-> << >>,
           result |-> [raises |-> "no", status_code |-> 0, output |-> << >>]]

InitOther ==
    /\ extraction = NoExtraction
    /\ db = << >>
    /\ http = NoReply
    /\ rpc = NoRequest
    /\ tox = NoCall

InitPoster ==
    /\ package_results = << >>
    /\ total_posted = 0
    /\ in_flight = {}
    /\ flushes = << >>
    /\ recorded = << >>

Init ==
    /\ workers \in 0..MaxWorkers
    /\ batch_size \in 1..MaxBatch
    /\ secret \in BOOLEAN
    /\ site \in BOOLEAN
    /\ index_len \in 0..MaxPlugins
    /\ limit = NoLimit
    /\ n_total = len_plugins
    /\ tmp = "exists"
    /\ release_urls = << >>
    /\ InitOther
    /\ main_pc = "loop"
    /\ sem_value = workers
    /\ InitJobs
    /\ InitPoster

----------------------------------------------------------------------------
(* The semaphore, the nursery and the way a task leaves process_package.   *)

\* release_urls is a blocking xmlrpc call made on the event loop's thread:
\* while a task is inside it no other task runs
Blocked == \E j \in Plugins : pc[j] = "index_query"

\* The tasks that hold a slot of the semaphore
Holding == {"admitted", "check_cache", "index_query", "download", "write",
            "test", "posting"}
\* The tasks that are inside run_package
InRunPackage == {"check_cache", "index_query", "download", "write", "test"}
Finished == {"done", "raised", "cancelled"}

\* trio.Semaphore.release: a parked task gets the slot directly, otherwise
\* the value goes up.  pcf is pc with the leaving task already moved.
release(pcf) ==
    IF lot # << >>
    THEN /\ lot' = Tail(lot)
         /\ sem_value' = sem_value
         /\ pc' = [pcf EXCEPT ![Head(lot)] = "admitted"]
    ELSE /\ lot' = lot
         /\ sem_value' = sem_value + 1
         /\ pc' = pcf

\* A variant of leave: the exception of a task is kept by the nursery and
\* the other tasks run on
leave_quietly(j, how) ==
    /\ release([pc EXCEPT ![j] = how])
    /\ cancelled' = cancelled

\* The end of `async with semaphore` (line 332): normally, or by an exception,
\* which makes the nursery cancel its scope
leave(j, how) ==
    /\ release([pc EXCEPT ![j] = how])
    /\ cancelled' = (cancelled \/ how = "raised")

\* lines 337-338 after run_package has returned r: print, hand over, and
\* either await the POST of a full batch or leave
finish(j, r) ==
    /\ print_package_result(r)
    /\ maybe_post_batch(r, j)
    /\ UNCHANGED total_posted
    /\ IF Flushed /\ PostAllRaises THEN leave(j, "raised")
       ELSE IF Awaiting(j)
            THEN /\ pc' = [pc EXCEPT ![j] = "posting"]
                 /\ UNCHANGED << semVars, cancelled >>
            ELSE leave(j, "done")

bump(j, field) == [effects EXCEPT ![j][field] = @ + 1]

\* effects and basename describe the call of run_package in progress: they
\* are kept while the task stays inside run_package and dropped when it returns
\* or raises.  eff and b are the values the step computed.
track(j, eff) ==
    effects' = [effects EXCEPT ![j] = IF pc'[j] \in InRunPackage THEN eff[j] ELSE NoEffects]
locals(j, b) ==
    basename' = [basename EXCEPT ![j] = IF pc'[j] \in InRunPackage THEN b ELSE None]

----------------------------------------------------------------------------
(* main().                                                                 *)

\* lines 400-405: when post_all has returned, the summary, the end of the
\* session and shutil.rmtree(tmp); an exception skips all three
end_of_main == tmp' = IF main_pc' = "done" THEN "removed" ELSE tmp

\* A variant of start_next: the loop spawns every task at once and waits for
\* none of them, as nursery.start_soon would
start_next_soon ==
    /\ main_pc = "loop" /\ ~cancelled /\ ~Blocked
    /\ next_plugin <= n_total
    /\ main_pc' = "starting"
    /\ pc' = [j \in Plugins |-> IF j \in next_plugin..n_total /\ pc[j] = "idle"
                                 THEN "spawned" ELSE pc[j]]
    /\ UNCHANGED << configVars, tmp, next_plugin, semVars, cancelled, basename, proc,
                    effects, printVars, posterVars >>

\* lines 384-396: nursery.start spawns the next task and waits for its started()
start_next ==
    /\ main_pc = "loop" /\ ~cancelled /\ ~Blocked
    /\ next_plugin <= n_total
    /\ main_pc' = "starting"
    /\ pc' = [pc EXCEPT ![next_plugin] = "spawned"]
    /\ UNCHANGED << configVars, tmp, next_plugin, semVars, cancelled, basename, proc,
                    effects, printVars, posterVars >>

\* A variant of final_post_all: post_all is called when the loop is over, inside
\* the nursery block, while children may still run
final_post_all_inside_nursery ==
    /\ main_pc = "loop" /\ ~cancelled /\ ~Blocked
    /\ next_plugin > n_total
    /\ post_all(package_results, MAIN, FALSE)
    /\ main_pc' = IF PostAllRaises THEN "failed"
                  ELSE IF Awaiting(MAIN) THEN "final_post" ELSE "done"
    /\ end_of_main
    /\ UNCHANGED << configVars, next_plugin, semVars, cancelled, jobVars,
                    printVars, total_posted, recorded >>

\* line 398: the nursery block ends when every child has ended; then post_all
final_post_all ==
    /\ main_pc = "loop" /\ ~cancelled /\ ~Blocked
    /\ next_plugin > n_total
    /\ \A j \in 1..n_total : pc[j] = "done"
    /\ post_all(package_results, MAIN, FALSE)
    /\ main_pc' = IF PostAllRaises THEN "failed"
                  ELSE IF Awaiting(MAIN) THEN "final_post" ELSE "done"
    /\ end_of_main
    /\ UNCHANGED << configVars, next_plugin, semVars, cancelled, jobVars,
                    printVars, total_posted, recorded >>

\* lines 237-240 and 400-403 for main's own post_all
final_post_response(resp) ==
    /\ main_pc = "final_post" /\ ~Blocked
    /\ \E f \in in_flight :
          /\ f.by = MAIN
          /\ IF post_succeeded(resp)
             THEN PostOk(f) /\ main_pc' = "done"
             ELSE PostFails(f) /\ main_pc' = "failed"
    /\ end_of_main
    /\ UNCHANGED << configVars, next_plugin, semVars, cancelled, jobVars, printVars >>

\* A child raised: the nursery block re-raises once every child has ended
main_aborts ==
    /\ main_pc \in {"loop", "starting"} /\ cancelled /\ ~Blocked
    /\ \A j \in Plugins : pc[j] \in Finished \cup {"idle"}
    /\ main_pc' = "failed"
    /\ UNCHANGED << configVars, tmp, next_plugin, semVars, cancelled, jobVars,
                    printVars, posterVars >>

----------------------------------------------------------------------------
(* process_package and run_package, one action per stretch between awaits. *)

\* A variant of acquire: the task goes on whatever the semaphore's value
acquire_unbounded(j) ==
    /\ pc[j] = "spawned" /\ ~cancelled /\ ~Blocked
    /\ sem_value' = sem_value - 1
    /\ lot' = lot
    /\ pc' = [pc EXCEPT ![j] = "admitted"]
    /\ UNCHANGED << configVars, tmp, main_pc, next_plugin, cancelled, basename, proc,
                    effects, printVars, posterVars >>

\* line 332: Semaphore.acquire takes a slot or parks the task
acquire(j) ==
    /\ pc[j] = "spawned" /\ ~cancelled /\ ~Blocked
    /\ IF sem_value > 0
       THEN /\ sem_value' = sem_value - 1
            /\ lot' = lot
            /\ pc' = [pc EXCEPT ![j] = "admitted"]
       ELSE /\ sem_value' = sem_value
            /\ lot' = Append(lot, j)
            /\ pc' = [pc EXCEPT ![j] = "parked"]
    /\ UNCHANGED << configVars, tmp, main_pc, next_plugin, cancelled, basename, proc,
                    effects, printVars, posterVars >>

\* lines 333-258: started() lets main's loop go on; run_package sends the
\* cache check when the site is configured and goes to the index otherwise
begin(j) ==
    /\ pc[j] = "admitted" /\ ~cancelled /\ ~Blocked
    /\ main_pc' = "loop"
    /\ next_plugin' = next_plugin + 1
    /\ IF site
       THEN /\ pc' = [pc EXCEPT ![j] = "check_cache"]
            /\ effects' = bump(j, "gets")
       ELSE /\ pc' = [pc EXCEPT ![j] = "index_query"]
            /\ effects' = effects
    /\ UNCHANGED << configVars, tmp, semVars, cancelled, basename, proc, printVars,
                    posterVars >>

\* lines 257-267: the answer of the cache check
cache_response(j, resp) ==
    /\ pc[j] = "check_cache" /\ ~cancelled /\ ~Blocked
    /\ IF cache_hit(resp)
       THEN finish(j, SkippedResult(j))
       ELSE /\ pc' = [pc EXCEPT ![j] = "index_query"]
            /\ UNCHANGED << semVars, cancelled, printVars, posterVars >>
    /\ track(j, effects)
    /\ UNCHANGED << configVars, tmp, main_pc, next_plugin, basename, proc >>

\* lines 267-273 and 50-74: release_urls answers and download_package picks
\* fname: it sends the GET for the file, or returns None
index_response(j, fname) ==
    /\ pc[j] = "index_query"
    /\ IF fname = None
       THEN finish(j, NoDistResult(j))
       ELSE /\ pc' = [pc EXCEPT ![j] = "download"]
            /\ UNCHANGED << semVars, cancelled, printVars, posterVars >>
    /\ track(j, IF fname = None THEN bump(j, "index")
                ELSE [effects EXCEPT ![j].index = @ + 1, ![j].gets = @ + 1,
                                     ![j].downloads = @ + 1])
    /\ locals(j, fname)
    /\ UNCHANGED << configVars, tmp, main_pc, next_plugin, proc >>

\* line 51: release_urls raises (a Fault that is no throttling signal, a
\* network error); nothing in run_package or process_package catches it
index_fault(j) ==
    /\ pc[j] = "index_query"
    /\ leave(j, "raised")
    /\ track(j, effects)
    /\ locals(j, None)
    /\ UNCHANGED << configVars, tmp, main_pc, next_plugin, proc, printVars, posterVars >>

\* A variant of download_response: a failed download is asked for again at the index
download_response_retries(j, ok) ==
    /\ pc[j] = "download" /\ ~cancelled /\ ~Blocked
    /\ pc' = [pc EXCEPT ![j] = IF ok THEN "write" ELSE "index_query"]
    /\ track(j, bump(j, "writes"))
    /\ locals(j, basename[j])
    /\ UNCHANGED << configVars, tmp, main_pc, next_plugin, semVars, cancelled, proc,
                    printVars, posterVars >>

\* lines 74-75: the artifact arrives (or session.get raises) and write_bytes starts
download_response(j, ok) ==
    /\ pc[j] = "download" /\ ~cancelled /\ ~Blocked
    /\ IF ok
       THEN /\ pc' = [pc EXCEPT ![j] = "write"]
            /\ UNCHANGED << semVars, cancelled >>
       ELSE leave(j, "raised")
    /\ track(j, bump(j, "writes"))
    /\ locals(j, basename[j])
    /\ UNCHANGED << configVars, tmp, main_pc, next_plugin, proc, printVars, posterVars >>

\* A variant of write_done: extract is called inside the try block of run_tox,
\* so that its error becomes a FAILED result with a traceback
write_done_catches(j, ok, archive) ==
    /\ pc[j] = "write" /\ ~cancelled /\ ~Blocked
    /\ LET wheel == endswith(basename[j], << ".whl" >>)
           extract_fails == ~wheel /\ extract_raises(basename[j], archive)
           prepare_fails == archive = "tox_ini_error"
           crash == test_block(TestEnd("Exception", 0))
       IN /\ IF ~ok
             THEN /\ leave(j, "raised")
                  /\ UNCHANGED << proc, printVars, posterVars >>
             ELSE IF extract_fails \/ prepare_fails
                  THEN /\ finish(j, DoneResult(j, crash.status_code, crash.output))
                       /\ proc' = proc
                  ELSE /\ pc' = [pc EXCEPT ![j] = "test"]
                       /\ proc' = [proc EXCEPT ![j] = "running"]
                       /\ UNCHANGED << semVars, cancelled, printVars, posterVars >>
          /\ track(j, [effects EXCEPT ![j].extracts = IF wheel THEN @ ELSE @ + 1,
                                      ![j].spawns = @ + 1])
    /\ locals(j, basename[j])
    /\ UNCHANGED << configVars, tmp, main_pc, next_plugin >>

\* lines 75-76, 274-283 and 103-131: the file is on disk (or write_bytes
\* raised); a wheel is used as it is and anything else is extracted; run_tox
\* prepares the directory and tox.ini and starts tox in a worker thread
write_done(j, ok, archive) ==
    /\ pc[j] = "write" /\ ~cancelled /\ ~Blocked
    /\ LET wheel == endswith(basename[j], << ".whl" >>)
           extract_fails == ~wheel /\ extract_raises(basename[j], archive)
           prepare_fails == archive = "tox_ini_error"
           crash == test_block(TestEnd("Exception", 0))
       IN /\ IF ~ok \/ extract_fails
             THEN /\ leave(j, "raised")
                  /\ UNCHANGED << proc, printVars, posterVars >>
             ELSE IF prepare_fails /\ crash.raises = "no"
                  THEN /\ finish(j, DoneResult(j, crash.status_code, crash.output))
                       /\ proc' = proc
                  ELSE IF prepare_fails
                  THEN /\ leave(j, "raised")
                       /\ UNCHANGED << proc, printVars, posterVars >>
                  ELSE /\ pc' = [pc EXCEPT ![j] = "test"]
                       /\ proc' = [proc EXCEPT ![j] = "running"]
                       /\ UNCHANGED << semVars, cancelled, printVars, posterVars >>
          /\ track(j, [effects EXCEPT ![j].extracts = IF wheel THEN @ ELSE @ + 1,
                                      ![j].spawns = @ + 1])
    /\ locals(j, basename[j])
    /\ UNCHANGED << configVars, tmp, main_pc, next_plugin >>

\* lines 281-294: the await of run_tox ends; a thread that trio abandoned at
\* the deadline goes on waiting for tox
test_ends(j, end) ==
    /\ pc[j] = "test" /\ ~cancelled /\ ~Blocked
    /\ proc' = [proc EXCEPT ![j] = IF end.kind = "Cancelled" THEN "running" ELSE "exited"]
    /\ IF test_block(end).raises = "no"
       THEN finish(j, DoneResult(j, test_block(end).status_code, test_block(end).output))
       ELSE /\ leave(j, "raised")
            /\ UNCHANGED << printVars, posterVars >>
    /\ track(j, effects)
    /\ locals(j, basename[j])
    /\ UNCHANGED << configVars, tmp, main_pc, next_plugin >>

\* tox exits after its task has stopped waiting for it
late_exit(j) ==
    /\ proc[j] = "running" /\ pc[j] # "test"
    /\ proc' = [proc EXCEPT ![j] = "exited"]
    /\ UNCHANGED << configVars, tmp, main_pc, next_plugin, semVars, cancelled, pc,
                    basename, effects, printVars, posterVars >>

\* lines 237-240 inside maybe_post_batch: the answer to the batch's POST
post_response(j, resp) ==
    /\ pc[j] = "posting" /\ ~cancelled /\ ~Blocked
    /\ \E f \in in_flight :
          /\ f.by = j
          /\ IF post_succeeded(resp)
             THEN PostOk(f) /\ leave(j, "done")
             ELSE PostFails(f) /\ leave(j, "raised")
    /\ UNCHANGED << configVars, tmp, main_pc, next_plugin, basename, proc, effects,
                    printVars >>

\* The nursery's scope is cancelled: a task parked in an await gets
\* trio.Cancelled there and unwinds through `async with semaphore`
Cancellable == {"spawned", "parked", "admitted", "check_cache", "download",
                "write", "test", "posting"}

cancel_job(j) ==
    /\ cancelled /\ ~Blocked
    /\ pc[j] \in Cancellable
    /\ IF pc[j] \in Holding
       THEN leave(j, "cancelled")
       ELSE /\ pc' = [pc EXCEPT ![j] = "cancelled"]
            /\ lot' = SelectSeq(lot, LAMBDA k : k # j)
            /\ UNCHANGED << sem_value, cancelled >>
    /\ in_flight' = {f \in in_flight : f.by # j}
    /\ track(j, effects)
    /\ locals(j, basename[j])
    /\ UNCHANGED << configVars, tmp, main_pc, next_plugin, proc, printVars,
                    package_results, total_posted, flushes, recorded >>

----------------------------------------------------------------------------
Next ==
    \/ start_next
    \/ final_post_all
    \/ \E resp \in Responses : final_post_response(resp)
    \/ main_aborts
    \/ \E j \in Plugins :
          \/ acquire(j)
          \/ begin(j)
          \/ \E resp \in Responses : cache_response(j, resp)
          \/ \E fname \in Selections : index_response(j, fname)
          \/ index_fault(j)
          \/ \E ok \in BOOLEAN : download_response(j, ok)
          \/ \E ok \in BOOLEAN, archive \in Archives : write_done(j, ok, archive)
          \/ \E end \in TestEnds : test_ends(j, end)
          \/ late_exit(j)
          \/ \E resp \in Responses : post_response(j, resp)
          \/ cancel_job(j)

Spec == Init /\ [][Next]_vars

----------------------------------------------------------------------------
(* ResultsPoster driven the way test_run.py drives it: one caller that     *)
(* awaits each call of maybe_post_batch or post_all before the next one.   *)

\* The results the driver hands over: what run_package can return for two plugins
DriverResults ==
    UNION {{SkippedResult(n), NoDistResult(n), DoneResult(n, 0, <<"tox output">>)}
           : n \in {1, 2}}

\* The calls made so far: of maybe_post_batch, and of post_all directly
DriverCalls == Len(recorded) + Cardinality({i \in DOMAIN flushes : ~flushes[i].auto})

PosterInit ==
    /\ workers = 0
    /\ batch_size \in 1..MaxBatch
    /\ secret \in BOOLEAN
    /\ site \in BOOLEAN
    /\ index_len = 0
    /\ limit = NoLimit
    /\ n_total = 0
    /\ tmp = "none"
    /\ release_urls = << >>
    /\ InitOther
    /\ main_pc = "driver"
    /\ sem_value = 0
    /\ InitJobs
    /\ InitPoster

driver_after_call ==
    main_pc' = IF Flushed /\ PostAllRaises THEN "failed"
               ELSE IF Awaiting(MAIN) THEN "driver_post" ELSE "driver"

driver_record(r) ==
    /\ main_pc = "driver"
    /\ DriverCalls < MaxCalls
    /\ maybe_post_batch(r, MAIN)
    /\ driver_after_call
    /\ UNCHANGED << configVars, tmp, next_plugin, semVars, cancelled, jobVars, printVars,
                    total_posted >>

driver_post_all ==
    /\ main_pc = "driver"
    /\ DriverCalls < MaxCalls
    /\ post_all(package_results, MAIN, FALSE)
    /\ driver_after_call
    /\ UNCHANGED << configVars, tmp, next_plugin, semVars, cancelled, jobVars, printVars,
                    total_posted, recorded >>

driver_post_response(resp) ==
    /\ main_pc = "driver_post"
    /\ \E f \in in_flight :
          /\ f.by = MAIN
          /\ IF post_succeeded(resp)
             THEN PostOk(f) /\ main_pc' = "driver"
             ELSE PostFails(f) /\ main_pc' = "failed"
    /\ UNCHANGED << configVars, tmp, next_plugin, semVars, cancelled, jobVars, printVars >>

PosterNext ==
    \/ \E r \in DriverResults : driver_record(r)
    \/ driver_post_all
    \/ \E resp \in Responses : driver_post_response(resp)

PosterSpec == PosterInit /\ [][PosterNext]_vars

----------------------------------------------------------------------------
(* main() from its arguments to the loop: lines 349-371 for every index     *)
(* length, --limit and --post-batches.                                     *)

Limits == {NoLimit} \cup {Limit(n) : n \in (0 - MaxIndex)..MaxIndex}

LimitInit ==
    /\ workers = 1
    /\ batch_size \in 0..MaxBatch
    /\ secret \in BOOLEAN
    /\ site = TRUE
    /\ index_len \in 0..MaxIndex
    /\ limit \in Limits
    /\ n_total = 0
    /\ tmp = "none"
    /\ release_urls = << >>
    /\ InitOther
    /\ main_pc = "args"
    /\ sem_value = workers
    /\ InitJobs
    /\ InitPoster

\* lines 349-381: the limit is applied, the scratch directory is made
read_plugins ==
    /\ main_pc = "args"
    /\ n_total' = len_plugins
    /\ tmp' = "exists"
    /\ main_pc' = "loop"
    /\ UNCHANGED << workers, batch_size, secret, site, index_len, limit, release_urls,
                    otherVars, next_plugin, semVars, cancelled, jobVars, printVars, posterVars >>

LimitSpec == LimitInit /\ [][read_plugins]_vars

----------------------------------------------------------------------------
(* One task from the answer of the index to the start of tox:              *)
(* download_package for every answer of release_urls.                      *)

DownloadInit ==
    /\ workers = 1
    /\ batch_size = 1
    /\ secret \in BOOLEAN
    /\ site \in BOOLEAN
    /\ index_len = 1
    /\ limit = NoLimit
    /\ n_total = 1
    /\ tmp = "exists"
    /\ release_urls \in ReleaseLists
    /\ InitOther
    /\ main_pc = "loop"
    /\ next_plugin = 2
    /\ sem_value = 0
    /\ lot = << >>
    /\ cancelled = FALSE
    /\ pc = [j \in Plugins |-> IF j = 1 THEN "index_query" ELSE "idle"]
    /\ basename = [j \in Plugins |-> None]
    /\ proc = [j \in Plugins |-> "none"]
    /\ effects = [j \in Plugins |->
                    IF j = 1 /\ site THEN [NoEffects EXCEPT !.gets = 1] ELSE NoEffects]
    /\ current = 0
    /\ printed = << >>
    /\ InitPoster

DownloadNext ==
    \/ index_response(1, download_package(release_urls))
    \/ \E ok \in BOOLEAN : download_response(1, ok)
    \/ \E ok \in BOOLEAN, archive \in Archives : write_done(1, ok, archive)

DownloadSpec == DownloadInit /\ [][DownloadNext]_vars

----------------------------------------------------------------------------
(* extract on its own, called once with a file name, as                    *)
(* test_unsupported_extraction_file_extension calls it.                    *)

\* run.py at rest: no task, nothing printed, nothing recorded
RunnerIdle ==
    /\ workers = 0
    /\ batch_size = 1
    /\ secret = FALSE
    /\ site = FALSE
    /\ index_len = 0
    /\ limit = NoLimit
    /\ n_total = 0
    /\ tmp = "none"
    /\ release_urls = << >>
    /\ sem_value = 0
    /\ pc = [j \in Plugins |-> "idle"]
    /\ proc = [j \in Plugins |-> "none"]
    /\ effects = [j \in Plugins |-> NoEffects]
    /\ lot = << >>
    /\ cancelled = FALSE
    /\ next_plugin = 1
    /\ current = 0
    /\ printed = << >>
    /\ InitPoster

\* The parts a file name is made of, and the names of up to MaxName parts
FileParts == {"p", ".zip", ".tar", ".gz", ".tgz", ".whl", ".dat"}
FileNames == UNION {[1..n -> FileParts] : n \in 1..MaxName}

ExtractInit ==
    /\ RunnerIdle
    /\ main_pc = "extract"
    /\ basename \in {[j \in Plugins |-> IF j = 1 THEN f ELSE None] : f \in FileNames}
    /\ InitOther

\* The name extract is called with
extract_basename == basename[1]

\* lines 79-96: one call of extract
extract_call(archive) ==
    /\ main_pc = "extract"
    /\ extraction' = extract(extract_basename, archive)
    /\ main_pc' = "extracted"
    /\ UNCHANGED << workers, batch_size, secret, site, index_len, limit, n_total, tmp,
                    release_urls, db, http, rpc, tox, next_plugin, semVars, cancelled,
                    jobVars, printVars, posterVars >>

\* The suffixes a name ends with, among those extract knows
KnownSuffixes(fname) == {ext \in Extractors : endswith(fname, ext)}

ExtractNext == \E archive \in Archives : extract_call(archive)

ExtractSpec == ExtractInit /\ [][ExtractNext]_vars

----------------------------------------------------------------------------
(* run_tox on its own: one call, as run_package makes it (lines 274-283),  *)
(* over a directory that holds a tox.ini or not.                           *)

\* What directory/tox.ini is: nothing, a file with its text, or a directory
Absent == << "absent" >>
File(text) == << "file" >> \o text
ADirectory == << "directory" >>
\* lines 143-165: the two placeholders; the one of a wheel names the wheel
PLACEHOLDER_TOX_SDIST == << "PLACEHOLDER_TOX_SDIST" >>
PLACEHOLDER_TOX_BDIST(wheel_fname) == << "PLACEHOLDER_TOX_BDIST" >> \o wheel_fname
\* canned_tox_ini of test_run.py: a tox.ini the archive brings along
canned_tox_ini == << "canned_tox_ini" >>

\* lines 274-279: a wheel is tested as it is, the directory extract returns otherwise
SdistTargets ==
    {extract(f, "ok").target : f \in {f \in FileNames : ~extract_raises(f, "ok")}}
WheelTargets == {f \in FileNames : Len(f) > 1 /\ endswith(f, << ".whl" >>)}

ToxEnvs == {"py36", "py27"}

\* The calls of run_tox: the directory of an sdist is there with or without a
\* tox.ini, or is missing (the archive held other names); the one of a wheel
\* is yet to be made, or is there already
ToxCalls ==
    {[NoCall EXCEPT !.pc = "call", !.target = t, !.mode = "sdist", !.tox_env = e,
                    !.pytest_version = "1.2.3", !.dir = "exists", !.tox_ini = ini] :
        t \in SdistTargets, e \in ToxEnvs,
        ini \in {Absent, File(canned_tox_ini), File(PLACEHOLDER_TOX_SDIST), ADirectory}}
    \cup {[NoCall EXCEPT !.pc = "call", !.target = t, !.mode = m, !.tox_env = e,
                         !.pytest_version = "1.2.3", !.dir = "missing"] :
            t \in SdistTargets, m \in {"sdist"}, e \in ToxEnvs}
    \cup {[NoCall EXCEPT !.pc = "call", !.target = t, !.mode = "bdist_wheel", !.tox_env = e,
                         !.pytest_version = "1.2.3", !.dir = d] :
            t \in WheelTargets, e \in ToxEnvs, d \in {"missing", "exists"}}

ToxInit ==
    /\ RunnerIdle
    /\ main_pc = "run_tox"
    /\ basename = [j \in Plugins |-> None]
    /\ extraction = NoExtraction
    /\ db = << >>
    /\ http = NoReply
    /\ rpc = NoRequest
    /\ tox \in ToxCalls

\* A variant of write_placeholder: the placeholder is written over any tox.ini
write_placeholder_always(call, text) ==
    IF call.dir = "missing"
    THEN [call EXCEPT !.pc = "raised", !.events = call.events \o << "isfile" >>,
                      !.was = call.tox_ini, !.result = Raises("Exception")]
    ELSE IF call.tox_ini = ADirectory
    THEN [call EXCEPT !.pc = "raised", !.events = call.events \o << "isfile" >>,
                      !.was = call.tox_ini, !.result = Raises("Exception")]
    ELSE [call EXCEPT !.events = call.events \o << "isfile", "write" >>,
                      !.was = call.tox_ini, !.tox_ini = File(text)]

\* lines 112-115: os.path.isfile(tox_file), and without a file there
\* open(tox_file, "w") and write; open raises when the directory is missing
\* or when tox.ini is a directory
write_placeholder(call, text) ==
    LET checked == [call EXCEPT !.events = call.events \o << "isfile" >>,
                                !.was = call.tox_ini]
    IN IF call.dir = "exists" /\ call.tox_ini[1] = "file" THEN checked
       ELSE IF call.dir = "missing" \/ call.tox_ini = ADirectory
       THEN [checked EXCEPT !.pc = "raised", !.result = Raises("Exception")]
       ELSE [checked EXCEPT !.events = checked.events \o << "write" >>,
                            !.tox_ini = File(text)]

\* lines 103-111: the directory and the placeholder of the mode; os.makedirs
\* raises when the directory is there
prepare(call) ==
    CASE call.mode = "sdist" -> write_placeholder(call, PLACEHOLDER_TOX_SDIST)
      [] call.mode = "bdist_wheel" ->
            IF call.dir = "exists"
            THEN [call EXCEPT !.pc = "raised", !.events = << "makedirs" >>,
                              !.result = Raises("Exception")]
            ELSE write_placeholder([call EXCEPT !.dir = "exists", !.events = << "makedirs" >>],
                                   PLACEHOLDER_TOX_BDIST(call.target))
      [] OTHER -> [call EXCEPT !.pc = "raised", !.result = Raises("Exception")]

\* lines 103-131, to the await: the directory is prepared, then tox is started
\* in a worker thread with the directory as its cwd
run_tox_starts ==
    /\ main_pc = "run_tox" /\ tox.pc = "call"
    /\ LET prepared == prepare(tox)
       IN tox' = IF prepared.pc = "raised" THEN prepared
                 ELSE [prepared EXCEPT !.pc = "running",
                                       !.events = prepared.events \o << "check_output" >>]
    /\ UNCHANGED << workers, batch_size, secret, site, index_len, limit, n_total, tmp,
                    release_urls, extraction, db, http, rpc, main_pc, next_plugin,
                    semVars, cancelled, jobVars, printVars, posterVars >>

\* lines 121-138: the await ends
run_tox_ends(end) ==
    /\ main_pc = "run_tox" /\ tox.pc = "running"
    /\ tox' = [tox EXCEPT !.pc = IF run_tox(end).raises = "no" THEN "returned" ELSE "raised",
                          !.result = run_tox(end)]
    /\ UNCHANGED << workers, batch_size, secret, site, index_len, limit, n_total, tmp,
                    release_urls, extraction, db, http, rpc, main_pc, next_plugin,
                    semVars, cancelled, jobVars, printVars, posterVars >>

ToxNext ==
    \/ run_tox_starts
    \/ \E end \in TestEnds : run_tox_ends(end)

ToxSpec == ToxInit /\ [][ToxNext]_vars

----------------------------------------------------------------------------
(* web.py: PlugsStorage over the results table, and the /output view.      *)
(* A name and a version are the sequences of their parts between dashes    *)
(* ("1.0-1" is << "1.0", "1" >>), so that "{name}-{version}" and rsplit    *)
(* are computed.                                                           *)

\* make_result_data of test_web.py: a payload with every key
make_result_data ==
    [name |-> << "mylib" >>, version |-> << "1.0" >>, env |-> "py27", pytest |-> "2.3",
     status |-> "ok", output |-> "ver", description |-> "a generic library"]

\* line 104
expected == {"name", "version", "env", "pytest", "status"}

\* The payload without some of its keys: del payload[key]
Without(payload, keys) == [k \in (DOMAIN payload) \ keys |-> payload[k]]

\* The payloads the model posts: make_result_data and one variation of each
\* part of the key, each with every field or as a failure without output and
\* description; and make_result_data without one of the expected keys
KeyVariants ==
    {make_result_data,
     [make_result_data EXCEPT !.name = << "my", "lib" >>],
     [make_result_data EXCEPT !.version = << "1.2" >>],
     [make_result_data EXCEPT !.version = << "1.0", "1" >>],
     [make_result_data EXCEPT !.env = "py33"],
     [make_result_data EXCEPT !.pytest = "2.4"]}
ValidPayloads ==
    KeyVariants
    \cup {Without([p EXCEPT !.status = "fail"], {"output", "description"}) : p \in KeyVariants}
InvalidPayloads == {Without(make_result_data, {k}) : k \in expected}
Payloads == ValidPayloads \cup InvalidPayloads

\* dict.get(key, default)
Get(payload, key, default) == IF key \in DOMAIN payload THEN payload[key] ELSE default

\* lines 111-114: the row has the four key values of the payload
SameKey(row, payload) ==
    /\ row.name = payload.name
    /\ row.version = payload.version
    /\ row.env = payload.env
    /\ row.pytest = payload.pytest

\* lines 117-121: the row written for a payload
PluginResult(payload) ==
    [name |-> payload.name, version |-> payload.version, env |-> payload.env,
     pytest |-> payload.pytest, status |-> payload.status,
     output |-> Get(payload, "output", ""),
     description |-> Get(payload, "description", "")]

\* What add_test_result leaves: the rows, whether it raised, the row it wrote
Stored(rows, raises, row) == [rows |-> rows, raises |-> raises, row |-> row]

\* A variant of add_test_result: the check of the keys is missing, and a
\* column without a value is stored empty
add_test_result_unchecked(rows, payload) ==
    Stored(Append(rows, [k \in DOMAIN make_result_data |->
                            IF k \in {"name", "version"} THEN Get(payload, k, << >>)
                            ELSE Get(payload, k, "")]),
           "no", Len(rows) + 1)

\* A variant of add_test_result: every payload is inserted as a new row
add_test_result_appends(rows, payload) ==
    IF ~(expected \subseteq DOMAIN payload) THEN Stored(rows, "TypeError", 0)
    ELSE Stored(Append(rows, PluginResult(payload)), "no", Len(rows) + 1)

\* lines 91-123: TypeError before anything is read; else the first row with
\* the key of the payload gets its status, output and description, and
\* without such a row one is inserted
add_test_result(rows, payload) ==
    IF ~(expected \subseteq DOMAIN payload) THEN Stored(rows, "TypeError", 0)
    ELSE LET found == {i \in DOMAIN rows : SameKey(rows[i], payload)}
             first == CHOOSE i \in found : \A k \in found : i <= k
         IN IF found = {}
            THEN Stored(Append(rows, PluginResult(payload)), "no", Len(rows) + 1)
            ELSE Stored([rows EXCEPT ![first] = PluginResult(payload)], "no", first)

\* line 294
HELP_TEXT == "Specify \"py\" and \"pytest\" parameters"

\* lines 305-307
NO_OUTPUT_AVAILABLE == "<no output available>"
LATEST_VERSION == << "latest" >>

\* packaging.version.parse over the versions of the model: the order of the
\* parsed versions (1.0 < 1.0.post1 < 1.2) and their str(), the normalised
\* spelling ("1.0-1" is spelled "1.0.post1")
parse(version) ==
    CASE version = << "1.0" >> -> [order |-> 1, str |-> << "1.0" >>]
      [] version = << "1.0", "1" >> -> [order |-> 2, str |-> << "1.0.post1" >>]
      [] version = << "1.2" >> -> [order |-> 3, str |-> << "1.2" >>]

\* lines 246-254: for a name, str() of the highest parsed version of its rows
get_latest_versions(rows) ==
    {<< r.name, parse(r.version).str >> :
        r \in {rows[i] : i \in {i \in DOMAIN rows :
                  \A k \in DOMAIN rows :
                     rows[k].name = rows[i].name =>
                        parse(rows[k].version).order <= parse(rows[i].version).order}}}

\* lines 200-209
filter_latest_results(all_results) ==
    SelectSeq(all_results,
              LAMBDA r : << r.name, r.version >> \in get_latest_versions(all_results))

\* lines 133-148
get_test_results(rows, name, version) ==
    IF version # LATEST_VERSION
    THEN SelectSeq(rows, LAMBDA r : r.name = name /\ r.version = version)
    ELSE filter_latest_results(SelectSeq(rows, LAMBDA r : r.name = name))

\* "{name}-{version}" as run.py line 257 and the tests build it
fullname_of(name, version) == name \o version

\* An answer of a view: a status code and a body, or an exception
Reply(call, status_code, body) ==
    [NoReply EXCEPT !.call = call, !.status_code = status_code, !.body = body]
ReplyRaises(call, exc, status_code) ==
    [NoReply EXCEPT !.call = call, !.raises = exc, !.status_code = status_code]

\* lines 297-302: rsplit("-", 1) cuts at the last dash; the field of the
\* first result with the env and the pytest, or None (here: "")
get_field_for(rows, fullname, env, pytest, field_name) ==
    LET name == SubSeq(fullname, 1, Len(fullname) - 1)
        version == << fullname[Len(fullname)] >>
        results == get_test_results(rows, name, version)
        matching == SelectSeq(results, LAMBDA r : r.env = env /\ r.pytest = pytest)
    IN IF matching = << >> THEN "" ELSE Head(matching)[field_name]

\* A variant of get_output: a result without output is answered with 200
get_output_always_200(rows, name, py, pytest) ==
    IF py # "" /\ pytest # ""
    THEN IF Len(name) < 2 THEN ReplyRaises("get_output", "ValueError", 500)
         ELSE LET output == get_field_for(rows, name, py, pytest, "output")
              IN IF output = "" THEN Reply("get_output", 200, NO_OUTPUT_AVAILABLE)
                 ELSE Reply("get_output", 200, output)
    ELSE Reply("get_output", 200, HELP_TEXT)

\* lines 278-294: the output with 200, the placeholder with 404 when there is
\* no result or no output, the help text when py or pytest is missing; a path
\* without a dash fails to unpack in get_field_for (ValueError, a 500)
get_output(rows, name, py, pytest) ==
    IF py # "" /\ pytest # ""
    THEN IF Len(name) < 2 THEN ReplyRaises("get_output", "ValueError", 500)
         ELSE LET output == get_field_for(rows, name, py, pytest, "output")
              IN IF output = "" THEN Reply("get_output", 404, NO_OUTPUT_AVAILABLE)
                 ELSE Reply("get_output", 200, output)
    ELSE Reply("get_output", 200, HELP_TEXT)

\* The requests of the model: every name and version, "latest", a path without
\* a dash; py and pytest given or not
Names == {p.name : p \in ValidPayloads}
Versions == {p.version : p \in ValidPayloads}
Envs == {p.env : p \in ValidPayloads}
PytestVersions == {p.pytest : p \in ValidPayloads}
OutputPaths ==
    {fullname_of(n, v) : n \in Names, v \in Versions \cup {LATEST_VERSION}} \cup Names

WebInit ==
    /\ RunnerIdle
    /\ main_pc = "web"
    /\ basename = [j \in Plugins |-> None]
    /\ InitOther

\* A call of PlugsStorage.add_test_result; the table holds up to MaxRows rows
call_add_test_result(payload) ==
    /\ main_pc = "web" /\ http.call = "none"
    /\ LET r == add_test_result(db, payload)
       IN /\ Len(r.rows) <= MaxRows
          /\ db' = r.rows
          /\ http' = [NoReply EXCEPT !.call = "add_test_result", !.request = << payload >>,
                                     !.raises = r.raises, !.row = r.row]
    /\ UNCHANGED << workers, batch_size, secret, site, index_len, limit, n_total, tmp,
                    release_urls, extraction, rpc, tox, main_pc, next_plugin, semVars,
                    cancelled, jobVars, printVars, posterVars >>

\* GET /output/<name>?py=<py>&pytest=<pytest>
request_output(name, py, pytest) ==
    /\ main_pc = "web" /\ http.call = "none"
    /\ http' = [get_output(db, name, py, pytest) EXCEPT !.request = << name, py, pytest >>]
    /\ UNCHANGED << workers, batch_size, secret, site, index_len, limit, n_total, tmp,
                    release_urls, extraction, rpc, tox, db, main_pc, next_plugin, semVars,
                    cancelled, jobVars, printVars, posterVars >>

\* The call has returned, the response is sent: the next one can be made
respond ==
    /\ main_pc = "web" /\ http.call # "none"
    /\ http' = NoReply
    /\ UNCHANGED << workers, batch_size, secret, site, index_len, limit, n_total, tmp,
                    release_urls, extraction, rpc, tox, db, main_pc, next_plugin, semVars,
                    cancelled, jobVars, printVars, posterVars >>

WebNext ==
    \/ respond
    \/ \E payload \in Payloads : call_add_test_result(payload)
    \/ \E name \in OutputPaths, py \in Envs \cup {""}, pytest \in PytestVersions \cup {""} :
          request_output(name, py, pytest)

WebSpec == WebInit /\ [][WebNext]_vars

\* The key of a row or of a payload
Key(r) == << r.name, r.version, r.env, r.pytest >>

\* The rows a request for (name, version) is about: those of the version, or
\* for "latest" those whose version is spelled as the normalised highest one
IsVersion(rows, r, version) ==
    IF version = LATEST_VERSION
    THEN \E i \in DOMAIN rows :
            /\ rows[i].name = r.name
            /\ \A k \in DOMAIN rows : rows[k].name = r.name =>
                   parse(rows[k].version).order <= parse(rows[i].version).order
            /\ r.version = parse(rows[i].version).str
    ELSE r.version = version

----------------------------------------------------------------------------
(* The site: the POST view of web.py that takes the batches of run.py, and *)
(* the cache check a later run makes against what was stored.              *)

\* The value of POST_KEY, and what dict.get answers for a key that is missing
POST_KEY == "my secret"
NoSecret == "<None>"

\* The plugins of the index: (name, version, description), a version with a
\* dash among them
IndexPlugins ==
    {[name |-> n, version |-> v, description |-> "a generic library"] :
        n \in {<< "mylib" >>, << "my", "lib" >>}, v \in {<< "1.0" >>, << "1.0", "1" >>}}

\* What run_package returns for them that is posted: NO DIST, PASSED
PostedResults ==
    UNION {{NoDistResult(plugin), DoneResult(plugin, 0, << "tox output" >>)} :
             plugin \in IndexPlugins}

\* The output as one string: the pieces joined
output_text(output) ==
    CASE output = << "No source or compatible distribution found" >> ->
            "No source or compatible distribution found"
      [] output = << "tox output", "\n\nTime: " >> -> "tox output\n\nTime: "

\* lines 219-229: the dict post_all builds for a result, with the env and the
\* pytest version of the run
posted_dict(r, tox_env, pytest_version) ==
    [name |-> r.name.name, version |-> r.name.version, env |-> tox_env,
     pytest |-> pytest_version, status |-> ResultDict(r).status,
     output |-> output_text(r.output), description |-> r.name.description]

\* The lists of dicts a run posts: a sorted batch of results of different plugins
RunEnv == "py36"
RunPytest == "1.2.3"
Batches ==
    {<< >>}
    \cup {<< posted_dict(r, RunEnv, RunPytest) >> : r \in PostedResults}
    \cup {<< posted_dict(r, RunEnv, RunPytest), posted_dict(q, RunEnv, RunPytest) >> :
            r \in {r \in PostedResults : r.name.name = << "my", "lib" >>},
            q \in {q \in PostedResults : q.name.name = << "mylib" >>}}

\* The body of a POST: a JSON object with or without "secret" and "results"
\* (line 235 of run.py sends both), or a JSON array of results, as
\* test_index_post sends
Body(kind, secret_key, has_results, results) ==
    [kind |-> kind, secret |-> secret_key, has_results |-> has_results, results |-> results]
PostBodies ==
    {Body("object", k, TRUE, b) : k \in {POST_KEY, "not my secret", NoSecret}, b \in Batches}
    \cup {Body("object", k, FALSE, << >>) : k \in {POST_KEY, NoSecret}}
    \cup {Body("array", NoSecret, FALSE, b) : b \in {b \in Batches : Len(b) = 1}}

\* lines 169-172: the secret of the body is POST_KEY
authenticate(body) == body.secret = POST_KEY

\* lines 183-184: add_test_result for each result, to the first that raises
RECURSIVE add_all(_, _)
add_all(rows, results) ==
    IF results = << >> THEN Stored(rows, "no", 0)
    ELSE LET r == add_test_result(rows, Head(results))
         IN IF r.raises # "no" THEN r ELSE add_all(r.rows, Tail(results))

\* lines 178-186: the POST branch of index: a body that is no dict has no
\* .get (AttributeError), an environment without POST_KEY raises KeyError, a
\* wrong secret aborts with 401, a body without "results" raises KeyError;
\* then the results are stored.  has_key: POST_KEY is in the environment
index(rows, has_key, body) ==
    IF body.kind # "object"
    THEN [rows |-> rows, reply |-> ReplyRaises("index", "AttributeError", 500)]
    ELSE IF ~has_key
    THEN [rows |-> rows, reply |-> ReplyRaises("index", "KeyError", 500)]
    ELSE IF ~authenticate(body)
    THEN [rows |-> rows, reply |-> Reply("index", 401, "Unauthorized")]
    ELSE IF ~body.has_results
    THEN [rows |-> rows, reply |-> ReplyRaises("index", "KeyError", 500)]
    ELSE LET r == add_all(rows, body.results)
         IN IF r.raises # "no"
            THEN [rows |-> r.rows, reply |-> ReplyRaises("index", r.raises, 500)]
            ELSE [rows |-> r.rows, reply |-> Reply("index", 200, "OK, posted {} entries")]

\* The dashboard with POST_KEY in its environment or not (`secret`), an empty
\* table, and one task of a later run (pc[1])
SiteInit ==
    /\ workers = 0
    /\ batch_size = 1
    /\ secret \in BOOLEAN
    /\ site = TRUE
    /\ index_len = 0
    /\ limit = NoLimit
    /\ n_total = 0
    /\ tmp = "none"
    /\ release_urls = << >>
    /\ sem_value = 0
    /\ main_pc = "site"
    /\ InitJobs
    /\ InitPoster
    /\ InitOther

\* POST /: one request to the view
post_index(body) ==
    /\ main_pc = "site" /\ http.call = "none"
    /\ LET r == index(db, secret, body)
       IN /\ Len(r.rows) <= MaxRows
          /\ db' = r.rows
          /\ http' = [r.reply EXCEPT !.request = << body >>]
    /\ UNCHANGED << workers, batch_size, secret, site, index_len, limit, n_total, tmp,
                    release_urls, extraction, rpc, tox, main_pc, next_plugin, semVars,
                    cancelled, jobVars, printVars, posterVars >>

\* run.py lines 255-259 and web.py lines 278-294: the cache check of a task of
\* a later run for a plugin of the index: GET {site}/output/{name}-{version}
\* with py and pytest, answered by get_output
site_get_output(plugin, tox_env, pytest_version) ==
    /\ main_pc = "site" /\ http.call = "none" /\ pc[1] = "idle"
    /\ http' = [get_output(db, fullname_of(plugin.name, plugin.version), tox_env,
                           pytest_version)
                   EXCEPT !.request = << plugin.name, plugin.version, tox_env,
                                         pytest_version >>]
    /\ pc' = [pc EXCEPT ![1] = "check_cache"]
    /\ UNCHANGED << workers, batch_size, secret, site, index_len, limit, n_total, tmp,
                    release_urls, extraction, rpc, tox, db, main_pc, next_plugin, semVars,
                    cancelled, basename, proc, effects, printVars, posterVars >>

\* run.py lines 260-267: 200 returns SKIPPED, anything else goes on to the
\* index: the plugin is tested again and its result posted again
site_cache_response ==
    /\ main_pc = "site" /\ pc[1] = "check_cache"
    /\ pc' = [pc EXCEPT ![1] = IF cache_hit(Response(http.status_code))
                                THEN "done" ELSE "index_query"]
    /\ UNCHANGED << workers, batch_size, secret, site, index_len, limit, n_total, tmp,
                    release_urls, otherVars, main_pc, next_plugin, semVars,
                    cancelled, basename, proc, effects, printVars, posterVars >>

\* The request is over; the next one can be made
site_respond ==
    /\ main_pc = "site" /\ http.call # "none" /\ pc[1] # "check_cache"
    /\ http' = NoReply
    /\ pc' = [pc EXCEPT ![1] = "idle"]
    /\ UNCHANGED << workers, batch_size, secret, site, index_len, limit, n_total, tmp,
                    release_urls, extraction, rpc, tox, db, main_pc, next_plugin, semVars,
                    cancelled, basename, proc, effects, printVars, posterVars >>

SiteNext ==
    \/ \E body \in PostBodies : post_index(body)
    \/ \E plugin \in IndexPlugins : site_get_output(plugin, RunEnv, RunPytest)
    \/ site_cache_response
    \/ site_respond

SiteSpec == SiteInit /\ [][SiteNext]_vars

----------------------------------------------------------------------------
(* RateLimitedProxy._rate_limit_request (and its copy in update_index.py): *)
(* one request, answered by the server until it returns or raises.         *)

\* A faultString: what stands before the sentence "The action could not be
\* performed because there were too many requests by the client." (PyPI puts
\* the class of the fault there), whether the sentence is there, and the
\* seconds of a closing "Limit may reset in N seconds." (-1: no such phrase)
FaultString(prefix, sentence, reset) ==
    [prefix |-> prefix, sentence |-> sentence, reset |-> reset]
Faults ==
    {FaultString(p, b, r) : p \in {"", "HTTPTooManyRequests: ", "ValueError: "},
                            b \in BOOLEAN, r \in {0 - 1, 1, 2}}

\* What the server answers to one request: a result, or a Fault
Answer(ok, value, fault) == [ok |-> ok, value |-> value, fault |-> fault]
Answers ==
    {Answer(TRUE, v, NoFault) : v \in {"r1", "r2"}}
    \cup {Answer(FALSE, "", f) : f \in Faults}

\* lines 43-45: ^.+Limit may reset in (\d+) seconds\.$ : the phrase closes the
\* string and at least one character stands before it
limit_reset_regex_match(fault) ==
    fault.reset >= 0 /\ (fault.prefix # "" \/ fault.sentence)

\* lines 53-56: ^.+The action could ... by the client.$ : the sentence closes
\* the string and at least one character stands before it
too_many_requests_regex_match(fault) ==
    fault.sentence /\ fault.reset < 0 /\ fault.prefix # ""

\* A variant of sleep_amt: a minute, whatever the server says
sleep_amt_a_minute(fault) ==
    IF limit_reset_regex_match(fault) \/ too_many_requests_regex_match(fault) THEN 60
    ELSE 0 - 1

\* A variant of sleep_amt: only the fault that tells the seconds is retried
sleep_amt_only_reset(fault) ==
    IF limit_reset_regex_match(fault) THEN fault.reset ELSE 0 - 1

\* lines 46-61: the seconds to sleep before the retry; -1: raise
sleep_amt(fault) ==
    IF limit_reset_regex_match(fault) THEN fault.reset
    ELSE IF too_many_requests_regex_match(fault) THEN 60
    ELSE 0 - 1

Methods == {"release_urls", "package_releases"}
MethodArgs == {<< "pytest-a", "1.0" >>, << "pytest-b" >>}

ProxyInit ==
    /\ RunnerIdle
    /\ main_pc = "proxy"
    /\ basename = [j \in Plugins |-> None]
    /\ extraction = NoExtraction
    /\ db = << >>
    /\ http = NoReply
    /\ tox = NoCall
    /\ rpc \in {[NoRequest EXCEPT !.pc = "request", !.method = m, !.args = a] :
                   m \in Methods, a \in MethodArgs}

\* lines 36-61: one turn of the loop: request_method(*args) is answered; the
\* result is returned, or the Fault is slept on, or raised again.  The server
\* throttles up to MaxThrottles times.
request_method(answer) ==
    /\ rpc.pc = "request"
    /\ LET call == << rpc.method, rpc.args >>
           made == [rpc EXCEPT !.calls = Append(@, call)]
       IN IF answer.ok
          THEN rpc' = [made EXCEPT !.pc = "returned", !.result = answer.value]
          ELSE IF sleep_amt(answer.fault) >= 0
               THEN /\ Len(rpc.slept) < MaxThrottles
                    /\ rpc' = [made EXCEPT !.pc = "sleeping",
                                           !.slept = Append(@, sleep_amt(answer.fault))]
               ELSE rpc' = [made EXCEPT !.pc = "raised", !.fault = answer.fault]
    /\ UNCHANGED << workers, batch_size, secret, site, index_len, limit, n_total, tmp,
                    release_urls, extraction, db, http, tox, main_pc, next_plugin, semVars,
                    cancelled, jobVars, printVars, posterVars >>

\* lines 48-49, 58-59: time.sleep returns, `continue`
sleep_returns ==
    /\ rpc.pc = "sleeping"
    /\ rpc' = [rpc EXCEPT !.pc = "request"]
    /\ UNCHANGED << workers, batch_size, secret, site, index_len, limit, n_total, tmp,
                    release_urls, extraction, db, http, tox, main_pc, next_plugin, semVars,
                    cancelled, jobVars, printVars, posterVars >>

ProxyNext ==
    \/ \E answer \in Answers : request_method(answer)
    \/ sleep_returns

ProxySpec == ProxyInit /\ [][ProxyNext]_vars

\* The server answers every request and time.sleep returns
FairProxySpec == ProxySpec /\ WF_vars(ProxyNext)

\* The throttling faults of PyPI: the class of the fault, the sentence, and
\* the limit phrase or not
Throttling(fault) == fault.prefix # "" /\ fault.sentence
\* The faults that say nothing of throttling
NotThrottling(fault) == ~fault.sentence /\ fault.reset < 0

----------------------------------------------------------------------------
(* The properties.                                                         *)

\* The results run_package has returned so far (each is printed as it returns)
Returned == {printed[i].result : i \in DOMAIN printed}

\* This step returns r from run_package (and prints it)
ReturnsNow(r) ==
    /\ Len(printed') = Len(printed) + 1
    /\ printed'[Len(printed')].result = r

\* Once out of run_package a task does not come back to it
StaysOut(j) == pc[j] \in {"posting"} \cup Finished => pc'[j] \in {"posting"} \cup Finished

InSection == {j \in Plugins : pc[j] \in Holding}

\* C1: at most `workers` jobs are between the acquisition of the semaphore
\* (the start of run_package) and its release after the hand-off to the
\* poster; every other job has not been started, is about to ask for a slot,
\* is parked because no slot is free, or has ended.
C1_BoundedJobs ==
    /\ Cardinality(InSection) <= workers
    /\ \A j \in Plugins : pc[j] \in InRunPackage => j \in InSection
    /\ \A j \in Plugins \ InSection : pc[j] \in {"idle", "spawned", "parked"} \cup Finished
    /\ \A j \in Plugins :
          pc[j] = "parked" => sem_value = 0 /\ Cardinality(InSection) = workers

C1_Witness ==
    /\ workers = 1
    /\ \E j, k \in Plugins : pc[j] = "test" /\ pc[k] = "parked"

\* C2 as stated: status_code = 0 exactly for PASSED, and SKIPPED and NO DIST
\* carry a non-zero code.
C2_Original ==
    \A r \in Returned :
        /\ r.status_code = 0 <=> r.status = "PASSED"
        /\ r.status \in {"SKIPPED", "NO DIST"} => r.status_code # 0

\* C2, amended: for every returned result other than a SKIPPED one,
\* status_code = 0 exactly for PASSED; NO DIST carries a non-zero code;
\* SKIPPED carries code 0.
C2_CodeMatchesStatus ==
    \A r \in Returned :
        /\ r.status # "SKIPPED" => (r.status_code = 0 <=> r.status = "PASSED")
        /\ r.status = "NO DIST" => r.status_code # 0
        /\ r.status = "SKIPPED" => r.status_code = 0

C2_Witness ==
    /\ \E r \in Returned : r.status = "SKIPPED"
    /\ \E r \in Returned : r.status = "FAILED" /\ r.status_code = 2

\* C3: the (status, status_code) pair of every returned result is (SKIPPED, 0),
\* (NO DIST, 1), (PASSED, 0) or (FAILED, c) with c # 0.
C3_StatusPairs ==
    \A r \in Returned :
        \/ r.status = "SKIPPED" /\ r.status_code = 0
        \/ r.status = "NO DIST" /\ r.status_code = 1
        \/ r.status = "PASSED"  /\ r.status_code = 0
        \/ r.status = "FAILED"  /\ r.status_code # 0

C3_Witness ==
    /\ \E r \in Returned : r.status = "NO DIST"
    /\ \E r \in Returned : r.status = "PASSED"

\* C4: when the cache check of a job answers 200, the step returns
\* (0, SKIPPED, "Skipped"), the job has sent exactly one GET and has made no
\* index query, download, write, extraction or subprocess, and it is out of
\* run_package for good.
C4_CacheHitSkips ==
    [][\A j \in Plugins :
         /\ (site /\ cache_response(j, Response(200))) =>
               /\ ReturnsNow(PackageResult(j, 0, "SKIPPED", <<"Skipped">>))
               /\ effects[j] = [NoEffects EXCEPT !.gets = 1]
               /\ pc'[j] \notin InRunPackage
               /\ proc'[j] = "none"
         /\ StaysOut(j)]_vars

C4_Witness ==
    \E j \in Plugins :
        /\ pc[j] = "done" /\ proc[j] = "none"
        /\ PackageResult(j, 0, "SKIPPED", <<"Skipped">>) \in Returned

\* C5: a cache check that raises or answers anything but 200 sends the job to
\* the index query: nothing is returned or recorded, and nothing is raised.
C5_CacheMissFetches ==
    [][\A j \in Plugins : \A resp \in Responses \ {Response(200)} :
         cache_response(j, resp) =>
            /\ pc'[j] = "index_query"
            /\ printed' = printed /\ recorded' = recorded
            /\ cancelled' = cancelled]_vars

C5_Witness == \E j \in Plugins : site /\ pc[j] = "index_query"

\* C6: when download_package returns None the step returns (1, NO DIST, "No
\* source or compatible distribution found"); the job has downloaded,
\* extracted and spawned nothing, and it is out of run_package for good.
C6_NoDist ==
    [][\A j \in Plugins :
         /\ index_response(j, None) =>
               /\ ReturnsNow(PackageResult(j, 1, "NO DIST",
                       <<"No source or compatible distribution found">>))
               /\ effects[j].downloads = 0 /\ effects[j].writes = 0
               /\ effects[j].extracts = 0 /\ effects[j].spawns = 0
               /\ pc'[j] \notin InRunPackage
               /\ proc'[j] = "none"
         /\ StaysOut(j)]_vars

C6_Witness ==
    \E j \in Plugins :
        /\ pc[j] = "done" /\ proc[j] = "none"
        /\ \E r \in Returned : r.name = j /\ r.status = "NO DIST"

\* C7: when the deadline passes while a job awaits tox, the step returns a
\* FAILED result with code 1 whose output starts with "tox run timed out";
\* tox exiting later changes nothing that was printed or recorded.
C7_Timeout ==
    [][\A j \in Plugins :
         /\ test_ends(j, TestEnd("Cancelled", 0)) =>
               /\ Len(printed') = Len(printed) + 1
               /\ LET r == printed'[Len(printed')].result
                  IN /\ r.name = j /\ r.status = "FAILED" /\ r.status_code = 1
                     /\ Head(r.output) = "tox run timed out"
               /\ pc'[j] \notin InRunPackage
         /\ late_exit(j) => printed' = printed /\ recorded' = recorded /\ flushes' = flushes
         /\ StaysOut(j)]_vars

C7_Witness ==
    \E j \in Plugins :
        /\ proc[j] = "exited" /\ pc[j] = "done"
        /\ \E r \in Returned : r.name = j /\ Head(r.output) = "tox run timed out"

\* run_tox raises an exception: while it prepares tox.ini, or from the call of tox
RunToxRaises(j) ==
    \/ test_ends(j, TestEnd("Exception", 0))
    \/ /\ \E ext \in Extractors \cup {<< ".whl" >>} : endswith(basename[j], ext)
       /\ write_done(j, TRUE, "tox_ini_error")

\* C8: an exception of run_tox makes the step return a FAILED result with
\* code 1 whose output starts with "traceback:\n"; the task does not raise
\* and the nursery is not cancelled (unless post_all itself raises in the same
\* step), and no other task is moved, but for a parked one that gets the slot.
C8_ToxCrash ==
    [][\A j \in Plugins :
         RunToxRaises(j) =>
            /\ Len(printed') = Len(printed) + 1
            /\ LET r == printed'[Len(printed')].result
               IN /\ r.name = j /\ r.status = "FAILED" /\ r.status_code = 1
                  /\ Head(r.output) = "traceback:\n"
            /\ (Flushed /\ PostAllRaises) \/ (pc'[j] # "raised" /\ cancelled' = cancelled)
            /\ \A k \in Plugins \ {j} :
                  pc'[k] = pc[k] \/ (pc[k] = "parked" /\ pc'[k] = "admitted")]_vars

C8_Witness ==
    \E j, k \in Plugins :
        /\ pc[j] = "done" /\ pc[k] = "test" /\ ~cancelled
        /\ \E r \in Returned : r.name = j /\ Head(r.output) = "traceback:\n"

\* The results that were recorded and not skipped, in the order of the calls
NotSkipped(r) == r.status # "SKIPPED"
NonSkipped == SelectSeq(recorded, NotSkipped)
\* The flushes made before the first direct call of post_all
AutoFlushes ==
    IF \A i \in DOMAIN flushes : flushes[i].auto THEN Len(flushes)
    ELSE (CHOOSE i \in DOMAIN flushes :
              ~flushes[i].auto /\ \A h \in 1..(i - 1) : flushes[h].auto) - 1

\* C9: with one caller, the i-th automatic flush is made by the (i*B)-th
\* recorded result and holds the B results recorded since the flush before;
\* what lies beyond the last multiple of B stays pending until post_all is
\* called directly, and that call flushes exactly those.
C9_BatchEveryB ==
    LET B == batch_size
        n == Len(NonSkipped)
        k == AutoFlushes
    IN /\ \A i \in 1..k : flushes[i].batch = sorted(SubSeq(NonSkipped, (i - 1) * B + 1, i * B))
       /\ k = Len(flushes) =>
             /\ k = n \div B
             /\ package_results = SubSeq(NonSkipped, k * B + 1, n)
       /\ k < Len(flushes) =>
             LET m == Len(flushes[k + 1].batch)
             IN /\ m < B
                /\ k * B + m <= n
                /\ flushes[k + 1].batch = sorted(SubSeq(NonSkipped, k * B + 1, k * B + m))

C9_Witness ==
    /\ batch_size = 2 /\ Len(NonSkipped) = 3 /\ Len(recorded) = 3
    /\ Len(flushes) = 2
    /\ flushes[1].auto /\ Len(flushes[1].batch) = 2
    /\ ~flushes[2].auto /\ flushes[2].batch = << recorded[3] >>
    /\ main_pc = "driver" /\ total_posted = 3

\* C10: no SKIPPED result is ever pending or in the batch of a flush, and the
\* step that hands a SKIPPED result to maybe_post_batch changes neither the
\* pending list nor total_posted and makes no flush and no POST.
C10_SkippedNotPosted ==
    /\ [](/\ \A i \in DOMAIN package_results : package_results[i].status # "SKIPPED"
          /\ \A i \in DOMAIN flushes : \A h \in DOMAIN flushes[i].batch :
                flushes[i].batch[h].status # "SKIPPED")
    /\ [][(/\ Len(recorded') = Len(recorded) + 1
           /\ recorded'[Len(recorded')].status = "SKIPPED") =>
              /\ package_results' = package_results
              /\ total_posted' = total_posted
              /\ flushes' = flushes
              /\ in_flight' = in_flight]_vars

C10_Witness ==
    /\ n_total = 1 /\ main_pc = "done" /\ secret /\ site
    /\ Len(printed) = 1 /\ printed[1].result.status = "SKIPPED"
    /\ total_posted = 0
    /\ \A i \in DOMAIN flushes : flushes[i].batch = << >>

\* C11: without a secret no call of post_all sends a POST, whatever the calls
\* of maybe_post_batch and post_all: no POST is ever awaited, total_posted
\* stays 0, and every call of post_all leaves the pending list empty.
C11_NoSecretNoPost ==
    /\ [](~secret =>
            /\ in_flight = {}
            /\ total_posted = 0
            /\ \A i \in DOMAIN flushes : ~flushes[i].sent)
    /\ [][(~secret /\ Flushed) => package_results' = << >>]_vars

C11_Witness ==
    /\ ~secret /\ site /\ batch_size = 2
    /\ Len(flushes) = 2
    /\ flushes[1].auto /\ Len(flushes[1].batch) = 2
    /\ ~flushes[2].auto /\ Len(flushes[2].batch) = 1
    /\ package_results = << >> /\ total_posted = 0 /\ main_pc = "driver"

\* A response that carries an error status (4xx, 5xx)
ErrorStatus(resp) == ~resp.raises /\ resp.status_code >= 400

\* C12: an error status in answer to a batch's POST leaves total_posted as it
\* was and raises: in a task, the task ends by the exception and the nursery
\* is cancelled; in main's final post_all, main fails.  Once the nursery is
\* cancelled main never starts the final post_all nor reaches the summary,
\* and a failed main stays failed.
C12_PostFailurePropagates ==
    /\ [][\A resp \in Responses : ErrorStatus(resp) =>
            /\ \A j \in Plugins :
                  post_response(j, resp) =>
                     /\ total_posted' = total_posted
                     /\ pc'[j] = "raised" /\ cancelled'
            /\ final_post_response(resp) =>
                  total_posted' = total_posted /\ main_pc' = "failed"]_vars
    /\ [](cancelled => main_pc \notin {"final_post", "done"})
    /\ [][(cancelled => cancelled') /\ (main_pc = "failed" => main_pc' = "failed")]_vars

C12_Witness ==
    /\ n_total = 1 /\ batch_size = 1 /\ secret /\ site
    /\ Len(recorded) = 1 /\ Len(flushes) = 1 /\ flushes[1].sent
    /\ pc[1] = "raised" /\ total_posted = 0 /\ main_pc = "failed"

\* C13: a call of post_all that finds the pending list empty sends no POST.
C13_EmptyFlushSendsNothing ==
    \A i \in DOMAIN flushes : flushes[i].batch = << >> => ~flushes[i].sent

\* The number of flushes whose batch holds r
TimesPosted(r) ==
    Cardinality({i \in DOMAIN flushes :
                    flushes[i].sent /\ \E h \in DOMAIN flushes[i].batch : flushes[i].batch[h] = r})
RECURSIVE SumOfBatches(_)
SumOfBatches(i) == IF i = 0 THEN 0 ELSE Len(flushes[i].batch) + SumOfBatches(i - 1)

\* C14: with a secret, when main is done (every POST was answered with
\* success and no task raised) every recorded result that is not SKIPPED is
\* in the batch of exactly one POST, nothing is pending or in flight, and
\* total_posted is the number of those results.
C14_AllPostedOnce ==
    (secret /\ main_pc = "done") =>
        /\ \A i \in DOMAIN recorded :
              NotSkipped(recorded[i]) => TimesPosted(recorded[i]) = 1
        /\ SumOfBatches(Len(flushes)) = Len(NonSkipped)
        /\ package_results = << >> /\ in_flight = {}
        /\ total_posted = Len(NonSkipped)

C14_Witness ==
    /\ secret /\ main_pc = "done" /\ workers = 1 /\ n_total = 2 /\ batch_size = 2
    /\ \A i \in 1..2 : printed[i].result.status = "NO DIST"
    /\ Len(flushes[1].batch) = 2
    /\ total_posted = 2

\* main has called its final post_all
MainFlushed == \E i \in DOMAIN flushes : flushes[i].by = MAIN

\* C15: when main has started its final post_all (and from then on, through
\* the summary), every submitted task has ended normally after printing and
\* handing over its result, no task awaits a POST, and nothing more is
\* printed or recorded.
C15_FinalFlushAfterJobs ==
    /\ []((MainFlushed \/ main_pc \in {"final_post", "done"}) =>
            /\ \A j \in 1..n_total : pc[j] = "done"
            /\ Len(printed) = n_total /\ Len(recorded) = n_total
            /\ \A f \in in_flight : f.by = MAIN)
    /\ [][MainFlushed => (pc' = pc /\ printed' = printed /\ recorded' = recorded)]_vars

C15_Witness ==
    /\ main_pc = "done" /\ n_total = 2 /\ workers = 2
    /\ Len(recorded) = 2 /\ MainFlushed

\* C16: the step in which a task's run_package returns appends that task's
\* line to the printed lines and its result to the results handed to the
\* poster, so both sequences are in the order in which the tasks finish.
C16_CompletionOrder ==
    /\ [][\A j \in Plugins :
            (pc[j] \in InRunPackage /\ pc'[j] \notin InRunPackage
                /\ Len(recorded') > Len(recorded)) =>
               /\ Len(printed') = Len(printed) + 1
               /\ SubSeq(printed', 1, Len(printed)) = printed
               /\ printed'[Len(printed')].result.name = j
               /\ recorded' = Append(recorded, printed'[Len(printed')].result)]_vars
    /\ [](/\ Len(printed) = Len(recorded)
          /\ \A i \in DOMAIN printed : printed[i].result = recorded[i])

C16_Witness ==
    /\ workers = 2 /\ Len(printed) = 2
    /\ printed[1].result.name = 2 /\ printed[2].result.name = 1
    /\ recorded[1].name = 2 /\ recorded[2].name = 1

\* C17: the counter is the number of lines printed, every task prints at most
\* one line, the k-th line shows floor(k * 100 / n_total), the percentages
\* never decrease, and when every task has printed the last line shows 100.
C17_Percentages ==
    /\ current = Len(printed)
    /\ \A i, k \in DOMAIN printed :
          /\ i # k => printed[i].result.name # printed[k].result.name
          /\ i <= k => printed[i].percent <= printed[k].percent
    /\ \A k \in DOMAIN printed :
          /\ printed[k].percent = (k * 100) \div n_total
          /\ printed[k].result.name \in 1..n_total
    /\ (n_total > 0 /\ Len(printed) = n_total) => printed[n_total].percent = 100

C17_Witness ==
    /\ n_total = 2 /\ workers = 2 /\ Len(printed) = 2
    /\ printed[1].result.name = 2 /\ printed[1].percent = 50
    /\ printed[2].percent = 100

\* C18: the number of jobs main submits is min(index_len, limit) when --limit
\* is given, min(index_len, 3 * post_batches) when it is not and there is no
\* secret, and index_len otherwise (a number of jobs: none when the minimum
\* is below 0).
C18_SubmittedJobs ==
    main_pc = "loop" =>
        n_total = IF limit.given THEN Max(0, Min(index_len, limit.value))
                  ELSE IF ~secret THEN Max(0, Min(index_len, 3 * batch_size))
                  ELSE index_len

\* C19: the scratch directory exists before any job starts, is removed once
\* main has ended (with the summary, or after a job has failed), and is not
\* removed before every job has ended and the final post_all has been made.
C19_ScratchRemoved ==
    /\ (\E j \in Plugins : pc[j] # "idle") => tmp # "none"
    /\ (main_pc = "done" \/ (main_pc = "failed" /\ \E j \in Plugins : pc[j] = "raised"))
          => tmp = "removed"
    /\ tmp = "removed" =>
          /\ \A j \in 1..n_total : pc[j] \in Finished
          /\ MainFlushed /\ in_flight = {}

\* What C20 says download_package selects: the first sdist; otherwise the
\* first wheel that is_compatible accepts; otherwise nothing
Selected(u) ==
    LET first(S) == CHOOSE i \in S : \A k \in S : i <= k
        sdists == {i \in DOMAIN u : u[i].packagetype = "sdist"}
        wheels == {i \in DOMAIN u : u[i].packagetype = "bdist_wheel"
                                      /\ u[i].compatible = "yes"}
    IN IF sdists # {} THEN u[first(sdists)].filename
       ELSE IF wheels # {} THEN u[first(wheels)].filename
       ELSE None

\* C20: for every answer of release_urls the task asks for the first sdist,
\* or else for the first wheel is_compatible accepts (an exception counts as
\* a refusal), sends one GET for it and writes one file under its filename;
\* when there is neither, it returns NO DIST in the step of the answer and
\* neither downloads nor writes anything.
C20_Selection ==
    /\ [][(pc[1] = "index_query" /\ pc'[1] # "index_query") =>
            IF Selected(release_urls) = None
            THEN /\ ReturnsNow(NoDistResult(1))
                 /\ pc'[1] \notin InRunPackage
            ELSE /\ pc'[1] = "download"
                 /\ basename'[1] = Selected(release_urls)
                 /\ effects'[1].downloads = 1 /\ effects'[1].writes = 0]_vars
    /\ [](/\ Selected(release_urls) = None =>
                /\ pc[1] \notin {"download", "write", "test"}
                /\ effects[1].downloads = 0 /\ effects[1].writes = 0
          /\ pc[1] \in {"write", "test"} =>
                /\ basename[1] = Selected(release_urls)
                /\ effects[1].downloads = 1 /\ effects[1].writes = 1)

C20_Witness ==
    /\ Len(release_urls) = 2
    /\ release_urls[1].packagetype = "bdist_wheel" /\ release_urls[1].compatible = "raise"
    /\ release_urls[2].packagetype = "bdist_wheel" /\ release_urls[2].compatible = "yes"
    /\ release_urls[1].filename # release_urls[2].filename
    /\ pc[1] = "test" /\ basename[1] = release_urls[2].filename
    /\ effects[1].downloads = 1 /\ effects[1].writes = 1

----------------------------------------------------------------------------
\* C21: extract raises an error naming the file for every file name that ends
\* in none of .zip, .tar.gz, .tgz, and then extracts nothing; for a name with
\* one of these suffixes, when it returns, it returns the name with exactly
\* that suffix removed (the extractor itself raises for an unreadable archive)
C21_Extract ==
    main_pc = "extracted" =>
        /\ KnownSuffixes(extract_basename) = {} =>
                /\ extraction.raises
                /\ extraction.message = [text |-> "could not extract %s",
                                          file |-> extract_basename]
                /\ extraction.extracted = "nothing"
        /\ KnownSuffixes(extract_basename) # {} /\ ~extraction.raises =>
                \E ext \in KnownSuffixes(extract_basename) :
                    extract_basename = extraction.target \o ext
        /\ KnownSuffixes(extract_basename) # {} =>
                (extraction.raises <=> extraction.extracted # "all")

C21_Witness ==
    /\ main_pc = "extracted"
    /\ extract_basename = << "p", ".zip", ".dat" >>
    /\ extraction.raises
    /\ extraction.message.file = extract_basename

----------------------------------------------------------------------------
\* C22: the table never holds two rows with the same (name, version, env,
\* pytest); add_test_result for a key that is stored replaces status, output
\* and description of its row and changes neither the number of rows nor any
\* other row; for a new key it appends exactly one row
C22_OneRecordPerKey ==
    /\ [](\A i, k \in DOMAIN db : Key(db[i]) = Key(db[k]) => i = k)
    /\ [][\A payload \in ValidPayloads : call_add_test_result(payload) =>
            LET found == {i \in DOMAIN db : Key(db[i]) = Key(payload)}
                written == [name |-> payload.name, version |-> payload.version,
                            env |-> payload.env, pytest |-> payload.pytest,
                            status |-> payload.status,
                            output |-> IF "output" \in DOMAIN payload
                                       THEN payload.output ELSE "",
                            description |-> IF "description" \in DOMAIN payload
                                            THEN payload.description ELSE ""]
            IN IF found # {}
               THEN /\ Len(db') = Len(db)
                    /\ \A i \in DOMAIN db :
                          db'[i] = IF i \in found THEN written ELSE db[i]
               ELSE db' = db \o << written >>]_vars

C22_Witness ==
    /\ http.call = "add_test_result"
    /\ http.raises = "no"
    /\ http.row = 1
    /\ Len(db) = 2
    /\ db[1].status = "fail"

\* C23: a payload without one of name, version, env, pytest, status raises
\* TypeError and leaves the rows as they were
C23_MissingKeyRaises ==
    [][\A payload \in Payloads :
          /\ \E k \in {"name", "version", "env", "pytest", "status"} : k \notin DOMAIN payload
          /\ call_add_test_result(payload)
          => http'.raises = "TypeError" /\ db' = db]_vars

C23_Witness ==
    /\ http.call = "add_test_result"
    /\ http.raises = "TypeError"
    /\ Len(db) = 1

\* C24 as it is written: the answer is 200 exactly when a row for
\* (name, version, env, pytest) is stored
C24_Original ==
    \A name \in Names, version \in Versions, py \in Envs, pytest \in PytestVersions :
       http.call = "get_output" /\ http.request = << fullname_of(name, version), py, pytest >>
       => (http.status_code = 200 <=>
              \E i \in DOMAIN db : Key(db[i]) = << name, version, py, pytest >>)

\* C24: with py and pytest given and the path cut at its last dash into name
\* and version, the answer is 200 with the stored output when a row for
\* (name, version, py, pytest) is stored with an output, and 404 with the
\* placeholder otherwise; "latest" stands for the normalised spelling of the
\* highest stored version of the name; without py or pytest the answer is the
\* help text with 200, and a path without a dash is an error
C24_OutputStatus ==
    http.call = "get_output" =>
       LET path == http.request[1]
           py == http.request[2]
           pytest == http.request[3]
       IN IF py = "" \/ pytest = ""
          THEN http.status_code = 200 /\ http.body = HELP_TEXT
          ELSE IF Len(path) < 2
          THEN http.raises = "ValueError" /\ http.status_code # 200
          ELSE LET name == SubSeq(path, 1, Len(path) - 1)
                   version == << path[Len(path)] >>
                   hits == {i \in DOMAIN db :
                               /\ db[i].name = name
                               /\ IsVersion(db, db[i], version)
                               /\ db[i].env = py
                               /\ db[i].pytest = pytest
                               /\ db[i].output # ""}
               IN IF hits # {}
                  THEN /\ http.status_code = 200
                       /\ \E i \in hits : http.body = db[i].output
                  ELSE /\ http.status_code = 404
                       /\ http.body = NO_OUTPUT_AVAILABLE

C24_Witness ==
    /\ http.call = "get_output"
    /\ http.request = << << "mylib", "1.2" >>, "py27", "2.3" >>
    /\ http.status_code = 200
    /\ http.body = "ver"
    /\ Len(db) = 2
    /\ db[1].output = ""

----------------------------------------------------------------------------
----------------------------------------------------------------------------
\* C26: once a task has returned the FAILED result of a timeout (it is
\* printed), the tox process it started is not running any more
C26_SubprocessTerminated ==
    \A i \in DOMAIN printed :
       Head(printed[i].result.output) = "tox run timed out"
       => proc[printed[i].result.name] # "running"

\* The tasks inside the download-and-write section of download_package
\* (lines 73-76): the GET of the file is awaited, or write_bytes is
Downloading == {j \in Plugins : pc[j] \in {"download", "write"}}

\* C27 as it is written: never two tasks in the download-and-write section
C27_Original == Cardinality(Downloading) <= 1

\* C27: the section takes no lock: as many tasks can be inside it as the
\* semaphore admits, and no more
C27_DownloadsBounded == Cardinality(Downloading) <= workers

C27_Witness ==
    /\ Cardinality(Downloading) = 2
    /\ \E j \in Downloading : pc[j] = "write"
    /\ \E j \in Downloading : pc[j] = "download"

\* The places of r: in the pending list and in the batches of the flushes
Places(r) ==
    {<< 0, h >> : h \in {h \in DOMAIN package_results : package_results[h] = r}}
    \cup UNION {{<< i, h >> : h \in {h \in DOMAIN flushes[i].batch : flushes[i].batch[h] = r}}
                : i \in DOMAIN flushes}

\* C28 as it is written: while a POST is awaited no step changes the pending
\* list and no post_all starts
C28_Original ==
    [][in_flight # {} =>
          /\ package_results' = package_results
          /\ Len(flushes') = Len(flushes)]_vars

\* C28: what post_all does to the pending list is one step: the flush takes
\* the whole list and leaves it empty before its POST is awaited, so every
\* recorded result is at one place, pending or in one batch; while a POST is
\* awaited other tasks record and flush, and the POSTs in flight are as many
\* as the tasks the semaphore admits (or the one of main)
C28_FlushIsOneStep ==
    /\ [](\A i \in DOMAIN recorded :
             NotSkipped(recorded[i]) => Cardinality(Places(recorded[i])) = 1)
    /\ [](Len(package_results) < batch_size)
    /\ [](Cardinality(in_flight) <= Max(workers, 1))
    /\ [][Len(flushes') > Len(flushes) =>
             /\ package_results' = << >>
             /\ Len(flushes') = Len(flushes) + 1
             /\ \A h \in DOMAIN package_results :
                   \E g \in DOMAIN flushes'[Len(flushes')].batch :
                      flushes'[Len(flushes')].batch[g] = package_results[h]]_vars

C28_Witness ==
    /\ Cardinality(in_flight) = 2
    /\ Len(flushes) = 2
    /\ \A j \in Plugins : pc[j] = "posting"

\* C29: while a task is in the index query, a task that awaits a response,
\* the write of its file, tox or its POST can take its next step
C29_IndexQuerySuspends ==
    \A j, k \in Plugins :
       (j # k /\ pc[j] = "index_query"
        /\ pc[k] \in {"check_cache", "download", "write", "test", "posting"})
       => ENABLED (\/ \E resp \in Responses : cache_response(k, resp)
                   \/ \E ok \in BOOLEAN : download_response(k, ok)
                   \/ \E ok \in BOOLEAN, archive \in Archives : write_done(k, ok, archive)
                   \/ \E end \in TestEnds : test_ends(k, end)
                   \/ \E resp \in Responses : post_response(k, resp))

\* What extract does with the file of task j, from the name and the file alone
ExtractMustRaise(j, archive) ==
    KnownSuffixes(basename[j]) = {} \/ archive \in {"unreadable", "truncated"}

----------------------------------------------------------------------------
\* The place of an event in what the call of run_tox did (0: it did not)
EventAt(e) ==
    IF \E i \in DOMAIN tox.events : tox.events[i] = e
    THEN CHOOSE i \in DOMAIN tox.events : tox.events[i] = e
    ELSE 0

\* C31: once run_tox has looked for tox.ini in a working directory that is
\* there, it has written the placeholder of its mode exactly when it found no
\* tox.ini, and the write comes before tox is started; a tox.ini file that
\* was there is what it was, at the start of tox and at its end; tox is
\* started only with a tox.ini file in place, and in a missing directory
\* nothing is written and tox is not started
C31_PlaceholderWhenMissing ==
    /\ [](EventAt("isfile") > 0 =>
            /\ tox.dir = "exists" => (EventAt("write") > 0 <=> tox.was = Absent)
            /\ tox.dir = "missing" => EventAt("write") = 0 /\ EventAt("check_output") = 0
            /\ EventAt("write") > 0 =>
                  /\ EventAt("isfile") < EventAt("write")
                  /\ tox.tox_ini = File(IF tox.mode = "sdist" THEN PLACEHOLDER_TOX_SDIST
                                        ELSE PLACEHOLDER_TOX_BDIST(tox.target))
            /\ tox.was[1] = "file" => tox.tox_ini = tox.was
            /\ EventAt("check_output") > 0 =>
                  /\ tox.tox_ini[1] = "file"
                  /\ EventAt("write") < EventAt("check_output")
                  /\ EventAt("isfile") < EventAt("check_output"))
    /\ [][tox.tox_ini[1] = "file" => tox'.tox_ini = tox.tox_ini]_vars

C31_Witness ==
    /\ tox.pc = "returned"
    /\ tox.mode = "sdist"
    /\ tox.was = Absent
    /\ tox.events = << "isfile", "write", "check_output" >>
    /\ tox.tox_ini = File(PLACEHOLDER_TOX_SDIST)

----------------------------------------------------------------------------
\* The states of a Package Job in the order of section 4.4, by the await the
\* task is parked in: START, CHECK_CACHE, FETCH (the index, the artifact, its
\* write), TEST (EXTRACT and the start of tox are one stretch of code), and
\* out of run_package
Stage(at) ==
    CASE at \in {"idle", "spawned", "parked", "admitted"} -> 0
      [] at = "check_cache" -> 1
      [] at = "index_query" -> 2
      [] at = "download" -> 3
      [] at = "write" -> 4
      [] at = "test" -> 5
      [] OTHER -> 6

\* C32: a task moves forward only through START, CHECK_CACHE, FETCH, EXTRACT,
\* TEST, DONE (or leaves by an exception or a cancellation) and never comes
\* back; in TEST it has passed every state before exactly once (one cache
\* check when a site is configured, one index query, one download, one write,
\* one extraction unless the file is a wheel, one tox); the step in which
\* run_package returns prints one result, the only one of the task: SKIPPED
\* out of CHECK_CACHE, NO DIST out of FETCH, PASSED or FAILED by the code
\* out of TEST
C32_StateMachine ==
    /\ [][\A j \in Plugins :
            /\ pc'[j] # pc[j] =>
                  \/ Stage(pc'[j]) > Stage(pc[j])
                  \/ Stage(pc'[j]) = 0 /\ Stage(pc[j]) = 0
                  \/ pc[j] = "posting" /\ pc'[j] \in Finished
            /\ (pc[j] \in InRunPackage /\ pc'[j] \in {"posting", "done"}) =>
                  /\ Len(printed') = Len(printed) + 1
                  /\ LET r == printed'[Len(printed')].result
                     IN /\ r.name = j
                        /\ pc[j] # "download"
                        /\ pc[j] = "check_cache" => r.status = "SKIPPED"
                        /\ pc[j] = "index_query" => r.status = "NO DIST"
                        /\ pc[j] \in {"write", "test"} =>
                              r.status = IF r.status_code = 0 THEN "PASSED" ELSE "FAILED"]_vars
    /\ [](\A j \in Plugins :
            /\ LET lines == Cardinality({i \in DOMAIN printed : printed[i].result.name = j})
               IN /\ lines <= 1
                  /\ Stage(pc[j]) <= 5 => lines = 0
                  /\ pc[j] \in {"posting", "done"} => lines = 1
            /\ pc[j] = "test" =>
                  effects[j] = [gets |-> IF site THEN 2 ELSE 1, index |-> 1, downloads |-> 1,
                                writes |-> 1,
                                extracts |-> IF endswith(basename[j], << ".whl" >>) THEN 0 ELSE 1,
                                spawns |-> 1])

C32_Witness ==
    /\ site
    /\ pc[1] = "test" /\ effects[1].gets = 2 /\ effects[1].extracts = 1
    /\ pc[2] = "done"
    /\ \E i \in DOMAIN printed : printed[i].result = SkippedResult(2)

----------------------------------------------------------------------------
\* C33: when extract raises for the file of a task (a suffix it does not know,
\* an archive it cannot read to its end), the task ends by that exception in
\* the same step: it gives its slot back and the nursery is cancelled, no line
\* is printed, no result is handed to the poster, nothing is flushed; a task
\* that has raised stays so and never prints
C33_ExtractErrorPropagates ==
    /\ [][\A j \in Plugins, archive \in Archives :
            (/\ pc[j] = "write" /\ ~endswith(basename[j], << ".whl" >>)
             /\ ExtractMustRaise(j, archive)
             /\ write_done(j, TRUE, archive)) =>
               /\ pc'[j] = "raised" /\ cancelled'
               /\ j \notin InSection'
               /\ printed' = printed /\ current' = current
               /\ recorded' = recorded /\ package_results' = package_results
               /\ flushes' = flushes /\ in_flight' = in_flight]_vars
    /\ [][\A j \in Plugins : pc[j] = "raised" =>
             /\ pc'[j] = "raised"
             /\ \A i \in DOMAIN printed' : i > Len(printed) => printed'[i].result.name # j]_vars

\* A task holds a file no extractor knows while another task runs tox
C33_Witness ==
    /\ pc[1] = "write" /\ basename[1] = << "p", ".dat" >>
    /\ pc[2] = "test" /\ ~cancelled
    /\ ENABLED write_done(1, TRUE, "ok")

----------------------------------------------------------------------------
\* The body does not carry the secret that is POST_KEY
Unauthenticated(body) == body.kind # "object" \/ body.secret # POST_KEY

\* C34: with POST_KEY in the environment of the dashboard, a POST whose body
\* does not carry the secret equal to it is answered with 401 and leaves the
\* rows of the table as they were
C34_RejectedWith401 ==
    [][\A body \in PostBodies :
          (secret /\ http.call = "none" /\ Unauthenticated(body) /\ post_index(body)) =>
             /\ http'.status_code = 401
             /\ db' = db]_vars

----------------------------------------------------------------------------
\* The tasks main has started that have not got their slot yet, or have it
\* and have not called started()
Starting == {j \in Plugins : pc[j] \in {"spawned", "parked", "admitted"}}

\* C35: main starts the tasks in the order of the index and waits for
\* started() of each, which the task calls once it holds a slot: at most one
\* started task is short of its slot, main is waiting for it, and every
\* plugin before it has entered run_package; a task is started only when all
\* plugins before it have entered run_package; with one worker the lines are
\* printed and the results recorded in the order of the index
C35_AdmissionOrder ==
    /\ [](/\ Cardinality(Starting) <= 1
          /\ Cardinality({j \in Plugins : pc[j] = "parked"}) = Len(lot)
          /\ \A j \in Starting :
                /\ main_pc \in {"starting", "failed"} /\ j = next_plugin
                /\ \A i \in 1..(j - 1) : Stage(pc[i]) >= 1
          /\ \A j \in Plugins : pc[j] # "idle" => j <= next_plugin /\ j <= n_total)
    /\ [][\A j \in Plugins :
            (pc[j] = "idle" /\ pc'[j] # "idle") =>
               /\ pc'[j] = "spawned"
               /\ \A i \in 1..(j - 1) : Stage(pc[i]) >= 1]_vars
    /\ [](workers = 1 =>
            /\ Cardinality({j \in Plugins : pc[j] \in InRunPackage \cup {"posting"}}) <= 1
            /\ \A i, k \in DOMAIN printed :
                  i < k => printed[i].result.name < printed[k].result.name
            /\ \A i, k \in DOMAIN recorded : i < k => recorded[i].name < recorded[k].name)

C35_Witness ==
    /\ workers = 1 /\ n_total = 2
    /\ pc[1] = "posting" /\ pc[2] = "parked" /\ lot = << 2 >>
    /\ main_pc = "starting"
    /\ Len(printed) = 1 /\ printed[1].result.name = 1

----------------------------------------------------------------------------
\* C36: whatever the order in which the tasks call maybe_post_batch, and
\* whether or not a POST is awaited at the time: a result that is not SKIPPED
\* goes to the end of the pending list, or with the pending list into one new
\* batch, in the step of the call; the pending list and the batches together
\* hold every such result once; a batch flushed by maybe_post_batch holds
\* batch_size results; between steps the pending list holds fewer
C36_NoneLostNoneTwice ==
    /\ [][Len(recorded') > Len(recorded) =>
            LET r == recorded'[Len(recorded')]
            IN /\ recorded' = Append(recorded, r)
               /\ NotSkipped(r) =>
                     \/ /\ package_results' = Append(package_results, r)
                        /\ flushes' = flushes
                     \/ /\ package_results' = << >>
                        /\ Len(flushes') = Len(flushes) + 1
                        /\ SubSeq(flushes', 1, Len(flushes)) = flushes
                        /\ flushes'[Len(flushes')].auto
                        /\ flushes'[Len(flushes')].batch = sorted(Append(package_results, r))]_vars
    /\ [](/\ Len(NonSkipped) = Len(package_results) + SumOfBatches(Len(flushes))
          /\ \A i \in DOMAIN NonSkipped : Cardinality(Places(NonSkipped[i])) = 1
          /\ \A i \in DOMAIN flushes :
                flushes[i].auto => Len(flushes[i].batch) = batch_size
          /\ batch_size >= 1 /\ Len(package_results) <= batch_size - 1)

\* A task hands over its result while the POST of another task's batch is awaited
C36_Witness ==
    /\ batch_size = 1 /\ workers = 2
    /\ Cardinality(in_flight) = 2
    /\ Len(flushes) = 2 /\ flushes[1].by = 2 /\ flushes[2].by = 1
    /\ Len(NonSkipped) = 2
    /\ package_results = << >>

----------------------------------------------------------------------------
----------------------------------------------------------------------------
\* The names of the results in the body of a POST, and of those pending
PostedNames(f) == {f.results[i].name : i \in DOMAIN f.results}
PendingNames == {package_results[h].name : h \in DOMAIN package_results}

\* C38: while the POST of a batch is awaited none of its results is pending;
\* when the POST raises or is answered with an error status, the step leaves
\* the pending list and total_posted as they were and only ends the await:
\* the results of the batch are not pending afterwards and were not counted
C38_FailedBatchDropped ==
    /\ [](\A f \in in_flight : PostedNames(f) \cap PendingNames = {})
    /\ [][\A f \in in_flight : f \notin in_flight' =>
            \/ /\ total_posted' = total_posted + Len(f.results)
               /\ package_results' = package_results
            \/ /\ total_posted' = total_posted
               /\ package_results' = package_results
               /\ PostedNames(f) \cap PendingNames' = {}
               /\ \/ f.by = MAIN /\ main_pc' = "failed"
                  \/ f.by # MAIN /\ pc'[f.by] \in {"raised", "cancelled"}]_vars
    /\ [][\A resp \in Responses : ~post_succeeded(resp) =>
            /\ \A j \in Plugins :
                  (pc[j] = "posting" /\ post_response(j, resp)) =>
                     /\ total_posted' = total_posted
                     /\ package_results' = package_results
                     /\ flushes' = flushes
            /\ (main_pc = "final_post" /\ final_post_response(resp)) =>
                  /\ total_posted' = total_posted
                  /\ package_results' = package_results
                  /\ flushes' = flushes]_vars

C38_Witness ==
    /\ n_total = 2 /\ batch_size = 2 /\ secret /\ site
    /\ Len(flushes) = 1 /\ flushes[1].sent /\ Len(flushes[1].batch) = 2
    /\ flushes[1].by = 2 /\ pc[2] = "raised" /\ pc[1] = "done"
    /\ in_flight = {} /\ package_results = << >> /\ total_posted = 0
    /\ main_pc = "failed"

----------------------------------------------------------------------------
\* A step of main or of a task: an await of theirs ends.  The exit of a tox
\* that was left behind at the deadline is no step of theirs
Progress ==
    \/ start_next
    \/ final_post_all
    \/ \E resp \in Responses : final_post_response(resp)
    \/ main_aborts
    \/ \E j \in Plugins :
          \/ acquire(j)
          \/ begin(j)
          \/ \E resp \in Responses : cache_response(j, resp)
          \/ \E fname \in Selections : index_response(j, fname)
          \/ index_fault(j)
          \/ \E ok \in BOOLEAN : download_response(j, ok)
          \/ \E ok \in BOOLEAN, archive \in Archives : write_done(j, ok, archive)
          \/ \E end \in TestEnds : test_ends(j, end)
          \/ \E resp \in Responses : post_response(j, resp)
          \/ cancel_job(j)

\* Every request is answered and the deadline of tox passes
FairSpec == Spec /\ WF_vars(Progress)

\* C39: when no GET, index query, download or POST is outstanding and no
\* step of main or of a task is left, main has finished (with the summary or
\* by the exception of a task) and every task it started has ended: with its
\* result, by raising, or cancelled
C39_Terminates ==
    ~ENABLED Progress =>
        /\ main_pc \in {"done", "failed"}
        /\ \A j \in Plugins : pc[j] \in Finished \cup {"idle"}
        /\ main_pc = "done" => \A j \in 1..n_total : pc[j] = "done"

-----------------------------------------------------------------------------
\* The stored row of the four values the cache check of the later run asked for
StoredFor(request) == {i \in 1..Len(db) : Key(db[i]) = request}

\* C40: once the dashboard has stored the posted result of a job for (name,
\* version, env, pytest_version), the cache check of a later run_package for
\* the same four values gets 200 and the job returns SKIPPED: it does not go
\* on to the index query, so the plugin is not tested and posted again.
C40_RerunSkipped ==
    (/\ main_pc = "site"
     /\ http.call = "get_output"
     /\ pc[1] \in {"check_cache", "done", "index_query"}
     /\ StoredFor(http.request) # {})
        => /\ http.status_code = 200
           /\ pc[1] # "index_query"
====
